---------------------------- MODULE Spec2Model ----------------------------
(***************************************************************************)
(* Model of the toki-backend live channel: the connection registry         *)
(* (socket/index.js), the connection-time authentication                   *)
(* (socket/middleware/socketAuth.js), the message handlers                 *)
(* (socket/handlers/messageHandler.js) and the REST routes that write the  *)
(* same rows (routes/messages.js).                                         *)
(*                                                                         *)
(* Every handler is cut at its awaits on the store.  A store call is two   *)
(* moments: the statement takes effect in the store, and later the         *)
(* handler's continuation runs on the event loop; other handlers run in    *)
(* between.  A read of data that never changes (the users table) is one    *)
(* step.  Every store call may also throw.                                 *)
(***************************************************************************)
EXTENDS Naturals, Sequences, FiniteSets

VARIABLES
    users,          \* users table: id -> [is_online, last_seen]
    messages,       \* messages table: sequence of rows, the id is the index
    connectedUsers, \* the registry Map: a function on the registered user ids
    sockets,        \* every socket the server has seen, in handshake order
    outbox,         \* outbox[s]: the events emitted to socket s, in order
    reqs,           \* the handler invocations, in arrival order
    now             \* the clock read by new Date() and NOW()

vars == <<users, messages, connectedUsers, sockets, outbox, reqs, now>>

----------------------------------------------------------------------------
(* Bounds of the model *)

\* The number of things clients do in a run of Spec: handshakes, disconnects
\* and events sent.
MaxInputs == 3
\* The same, in a run of SpecRegistry.
MaxRegistryInputs == 3
\* The same, in a run of SpecRead.
MaxReadInputs == 3
\* The same, in a run of SpecHistory.
MaxHistoryInputs == 4
\* The same, in a run of SpecEdit.
MaxEditInputs == 3
MaxPresenceInputs == 4
MaxPageInputs == 3
MaxTypingInputs == 3
MaxCleanupInputs == 3
MaxSessionInputs == 3
MaxContentInputs == 3
MaxOutcomeInputs == 3
\* The last value of the clock.
MaxTime == 1

----------------------------------------------------------------------------
(* Values *)

\* Rows of the users table.  Ids are opaque strings (UUIDs in the schema).
Users == {"u1", "u2"}

\* A syntactically valid id that names no row of the users table.
UnknownUser == "ux"

Username(u) == IF u = "u1" THEN "alice" ELSE IF u = "u2" THEN "bob" ELSE "nobody"

\* Option values: <<>> is null / undefined, <<v>> is v.
Null == <<>>
Some(v) == <<v>>

(***************************************************************************)
(* Strings are run-length encoded: a sequence of <<character, count>>      *)
(* runs, so that the 5000-character limit keeps its value.                 *)
(***************************************************************************)
IsSpace(ch) == ch = " "

RECURSIVE StrLen(_)
StrLen(str) == IF str = <<>> THEN 0 ELSE Head(str)[2] + StrLen(Tail(str))

RECURSIVE TrimStart(_)
TrimStart(str) ==
    IF str = <<>> THEN <<>>
    ELSE IF IsSpace(Head(str)[1]) THEN TrimStart(Tail(str))
    ELSE str

RECURSIVE TrimEnd(_)
TrimEnd(str) ==
    IF str = <<>> THEN <<>>
    ELSE IF IsSpace(str[Len(str)][1]) THEN TrimEnd(SubSeq(str, 1, Len(str) - 1))
    ELSE str

\* String.prototype.trim
Trim(str) == TrimEnd(TrimStart(str))

MaxContentLen == 5000

\* The content fields a client sends: Null is a missing field.
Blank == << <<" ", 2>> >>
Hi == << <<"a", 2>> >>
Padded == << <<" ", 1>>, <<"b", 3>>, <<" ", 1>> >>
Longest == << <<"c", MaxContentLen>> >>
PaddedLong == << <<"d", MaxContentLen - 1>>, <<" ", 2>> >>

\* !content: undefined or the empty string
Falsy(opt) == opt = Null \/ opt[1] = <<>>


----------------------------------------------------------------------------
(* Helpers on the state *)

SocketIds == 1..Len(sockets)
ReqIds == 1..Len(reqs)

SetSocket(s, f) == [sockets EXCEPT ![s] = f]
SetReq(h, f) == [reqs EXCEPT ![h] = f]

\* What the clients have done so far: every handshake, every disconnect and
\* every event sent.
Inputs ==
    Len(sockets) + Len(reqs)
    + Cardinality({s \in SocketIds :
                     sockets[s].state \in {"closing", "closing_done", "closed"}})

\* The sockets that are in the namespace: connected and not yet disconnected.
Connected(s) == sockets[s].state = "connected"

\* socket.emit(ev): one event to the handler's own socket.
Emit(box, s, ev) == [box EXCEPT ![s] = Append(@, ev)]

\* io.to(room).emit(ev): to the sockets in the room named by a socket id; the
\* room is empty once that socket has left the namespace.
EmitTo(box, s, ev) ==
    IF s \in SocketIds /\ Connected(s) THEN Emit(box, s, ev) ELSE box

\* socket.broadcast.emit(ev): to every socket in the namespace but this one.
Broadcast(box, s, ev) ==
    [i \in DOMAIN box |->
        IF i # s /\ Connected(i) THEN Append(box[i], ev) ELSE box[i]]

\* connectedUsers.get(key)
RegistryGet(key) ==
    IF key \in DOMAIN connectedUsers THEN Some(connectedUsers[key]) ELSE Null

\* connectedUsers.set(key, value)
RegistrySet(key, value) ==
    [k \in DOMAIN connectedUsers \cup {key} |->
        IF k = key THEN value ELSE connectedUsers[k]]

\* connectedUsers.delete(key)
RegistryDelete(key) ==
    [k \in DOMAIN connectedUsers \ {key} |-> connectedUsers[k]]

----------------------------------------------------------------------------
(* Initial state: no connection, no handler, an empty messages table. *)

Init ==
    /\ users = [u \in Users |->
                    [is_online |-> FALSE, last_seen |-> Null, refresh_token |-> Null]]
    /\ messages = <<>>
    /\ connectedUsers = <<>>
    /\ sockets = <<>>
    /\ outbox = <<>>
    /\ reqs = <<>>
    /\ now = 0

\* Time passes.
Tick ==
    /\ now < MaxTime
    /\ now' = now + 1
    /\ UNCHANGED <<users, messages, connectedUsers, sockets, outbox, reqs>>

----------------------------------------------------------------------------
(* Connection: socketAuthMiddleware, then the connection handler *)

\* The credentials of a handshake: Null is no token; a token that does not
\* verify is malformed or expired; a valid one carries decoded.userId.
ValidToken(u) == Some([kind |-> "valid", userId |-> u])
BadTokens == {Null, Some([kind |-> "malformed", userId |-> "u1"]),
              Some([kind |-> "expired", userId |-> "u1"])}
GoodTokens == {ValidToken(u) : u \in Users}
AllTokens == BadTokens \cup GoodTokens \cup {ValidToken(UnknownUser)}

NewSocket(state, token) ==
    [state |-> state, token |-> token, userId |-> Null, connectedAt |-> Null]

\* Mutant: a middleware that does not look at the expiry of the token.
Handshake_AcceptsExpired(token) ==
    /\ sockets' = Append(sockets,
            IF token = Null \/ token[1].kind = "malformed" \/ token[1].userId \notin Users
            THEN NewSocket("rejected", token)
            ELSE [NewSocket("auth_update", token) EXCEPT
                    !.userId = Some(token[1].userId)])
    /\ outbox' = Append(outbox, <<>>)
    /\ UNCHANGED <<users, messages, connectedUsers, reqs, now>>

\* socketAuth.js 13-43: no token, jwt.verify throws or the user lookup finds
\* no row: next(Error).  Otherwise the identity is attached to the socket and
\* the update of the online flag is awaited.  (The lookup reads the users
\* table, whose rows are never removed, and nothing of the socket is visible
\* before it returns: the handshake and the lookup's return are one step.)
Handshake(token) ==
    /\ sockets' = Append(sockets,
            IF token = Null \/ token[1].kind # "valid" \/ token[1].userId \notin Users
            THEN NewSocket("rejected", token)
            ELSE [NewSocket("auth_update", token) EXCEPT
                    !.userId = Some(token[1].userId)])
    /\ outbox' = Append(outbox, <<>>)
    /\ UNCHANGED <<users, messages, connectedUsers, reqs, now>>

\* socketAuth.js 26-29, 48-59: the user lookup throws: next(Error).
HandshakeFails(token) ==
    /\ token # Null /\ token[1].kind = "valid"
    /\ sockets' = Append(sockets, NewSocket("rejected", token))
    /\ outbox' = Append(outbox, <<>>)
    /\ UNCHANGED <<users, messages, connectedUsers, reqs, now>>

\* Mutant: the middleware calls next() without writing the flag.
AuthUpdate_NoWrite(s) ==
    /\ sockets[s].state = "auth_update"
    /\ sockets' = SetSocket(s, [sockets[s] EXCEPT !.state = "auth_next"])
    /\ UNCHANGED <<users, messages, connectedUsers, outbox, reqs, now>>

\* socketAuth.js 40-43: UPDATE users SET is_online = true takes effect.
AuthUpdate(s) ==
    /\ sockets[s].state = "auth_update"
    /\ users' = [users EXCEPT ![sockets[s].userId[1]].is_online = TRUE]
    /\ sockets' = SetSocket(s, [sockets[s] EXCEPT !.state = "auth_next"])
    /\ UNCHANGED <<messages, connectedUsers, outbox, reqs, now>>

\* socketAuth.js 40-43, 48-59: the update throws: next(Error).
AuthUpdateFails(s) ==
    /\ sockets[s].state = "auth_update"
    /\ sockets' = SetSocket(s, [sockets[s] EXCEPT !.state = "rejected"])
    /\ UNCHANGED <<users, messages, connectedUsers, outbox, reqs, now>>

UserOnline(u) == [type |-> "user_online", userId |-> u, username |-> Username(u)]
ConnectedEv(u, t) ==
    [type |-> "connected", userId |-> u, username |-> Username(u), connectedAt |-> t]

\* A registry that keeps the first registration of a user.
Register_IfAbsent(s) ==
    IF sockets[s].userId[1] \in DOMAIN connectedUsers THEN connectedUsers
    ELSE RegistrySet(sockets[s].userId[1], s)

\* connectedUsers.set(userId, socket.id), index.js 33
Register(s) == RegistrySet(sockets[s].userId[1], s)

\* Mutant: the connection handler also pushes the oldest unread message of
\* the user to the new socket.
Connection_Redelivers(s) ==
    /\ sockets[s].state = "auth_next"
    /\ LET u == sockets[s].userId[1]
           pending == {i \in DOMAIN messages :
                         messages[i].receiver_id = u /\ ~messages[i].is_read}
           box == Emit(Broadcast(outbox, s, UserOnline(u)), s, ConnectedEv(u, now)) IN
        /\ connectedUsers' = RegistrySet(u, s)
        /\ sockets' = SetSocket(s,
                [sockets[s] EXCEPT !.state = "connected", !.connectedAt = Some(now)])
        /\ outbox' = IF pending = {} THEN box
                     ELSE LET i == CHOOSE i \in pending : \A j \in pending : i <= j IN
                          Emit(box, s, [type |-> "receive_message",
                                        message |-> [id |-> messages[i].id]])
    /\ UNCHANGED <<users, messages, reqs, now>>

\* Mutant: the connection handler registers and confirms, and tells no one.
Connection_NoBroadcast(s) ==
    /\ sockets[s].state = "auth_next"
    /\ connectedUsers' = RegistrySet(sockets[s].userId[1], s)
    /\ sockets' = SetSocket(s,
            [sockets[s] EXCEPT !.state = "connected", !.connectedAt = Some(now)])
    /\ outbox' = Emit(outbox, s, ConnectedEv(sockets[s].userId[1], now))
    /\ UNCHANGED <<users, messages, reqs, now>>

\* index.js 25-51: next() was called; the connection handler registers the
\* socket, broadcasts user_online and confirms to the client.
Connection(s) ==
    /\ sockets[s].state = "auth_next"
    /\ LET u == sockets[s].userId[1] IN
        /\ connectedUsers' = Register(s)
        /\ sockets' = SetSocket(s,
                [sockets[s] EXCEPT !.state = "connected", !.connectedAt = Some(now)])
        /\ outbox' = Emit(Broadcast(outbox, s, UserOnline(u)), s, ConnectedEv(u, now))
    /\ UNCHANGED <<users, messages, reqs, now>>

----------------------------------------------------------------------------
(* Disconnect: index.js 59-83 *)

\* connectedUsers.delete(userId), index.js 65
Unregister(s) == RegistryDelete(sockets[s].userId[1])

\* index.js 59-72: the socket has left the namespace; the handler removes the
\* registry entry of its user and awaits the offline update.
Disconnect(s) ==
    /\ Connected(s)
    /\ connectedUsers' = Unregister(s)
    /\ sockets' = SetSocket(s, [sockets[s] EXCEPT !.state = "closing"])
    /\ UNCHANGED <<users, messages, outbox, reqs, now>>

\* index.js 69-72: UPDATE users SET is_online = false, last_seen = NOW()
DisconnectUpdate(s) ==
    /\ sockets[s].state = "closing"
    /\ users' = [users EXCEPT ![sockets[s].userId[1]] =
                    [@ EXCEPT !.is_online = FALSE, !.last_seen = Some(now)]]
    /\ sockets' = SetSocket(s, [sockets[s] EXCEPT !.state = "closing_done"])
    /\ UNCHANGED <<messages, connectedUsers, outbox, reqs, now>>

\* Mutant: an update that throws ends the handler.
DisconnectUpdateFails_Aborts(s) ==
    /\ sockets[s].state = "closing"
    /\ sockets' = SetSocket(s, [sockets[s] EXCEPT !.state = "closed"])
    /\ UNCHANGED <<users, messages, connectedUsers, outbox, reqs, now>>

\* index.js 73-75: the update throws; the error is logged.
DisconnectUpdateFails(s) ==
    /\ sockets[s].state = "closing"
    /\ sockets' = SetSocket(s, [sockets[s] EXCEPT !.state = "closing_done"])
    /\ UNCHANGED <<users, messages, connectedUsers, outbox, reqs, now>>

\* Mutant: lastSeen is the start of time.
UserOffline_Epoch(u, t) ==
    [type |-> "user_offline", userId |-> u, username |-> Username(u), lastSeen |-> 0]

\* index.js 78-82: the payload of user_offline, lastSeen being new Date()
UserOffline(u, t) ==
    [type |-> "user_offline", userId |-> u, username |-> Username(u), lastSeen |-> t]

\* index.js 77-82: the continuation broadcasts user_offline.
DisconnectBroadcast(s) ==
    /\ sockets[s].state = "closing_done"
    /\ outbox' = Broadcast(outbox, s, UserOffline(sockets[s].userId[1], now))
    /\ sockets' = SetSocket(s, [sockets[s] EXCEPT !.state = "closed"])
    /\ UNCHANGED <<users, messages, connectedUsers, reqs, now>>

----------------------------------------------------------------------------
(* send_message: messageHandler.js 20-100 *)

\* The data of a send_message event: { receiverId, content, tempId } and
\* whether an acknowledgement callback came with it.  Null is a missing field.
SendData(receiverId, content, tempId, cb) ==
    [receiverId |-> receiverId, content |-> content, tempId |-> tempId, cb |-> cb]

SendInputs ==
    {SendData(Some("u1"), Some(Longest), "t1", FALSE),
     SendData(Some("u2"), Some(Padded), "t2", TRUE),
     SendData(Some("u1"), Some(PaddedLong), "t2", FALSE),
     SendData(Some("u2"), Some(Blank), "t1", TRUE),
     SendData(Null, Some(Hi), "t2", TRUE),
     SendData(Some(UnknownUser), Some(Hi), "t1", TRUE)}

\* Mutant: the length check is left out.
SendValidation_NoLengthCheck(receiverId, content) ==
    IF receiverId = Null \/ Falsy(content)
    THEN Some("Receiver ID and content are required")
    ELSE IF StrLen(Trim(content[1])) = 0
    THEN Some("Message content cannot be empty")
    ELSE Null

\* messageHandler.js 24-43: the error of the input validation, Null if none.
SendValidation(receiverId, content) ==
    IF receiverId = Null \/ Falsy(content)
    THEN Some("Receiver ID and content are required")
    ELSE IF StrLen(Trim(content[1])) = 0
    THEN Some("Message content cannot be empty")
    ELSE IF StrLen(content[1]) > MaxContentLen
    THEN Some("Message too long (max 5000 characters)")
    ELSE Null

MessageError(tempId, error) ==
    [type |-> "message_error", tempId |-> tempId, error |-> error]
ErrorCallback(tempId, error) ==
    [type |-> "callback", tempId |-> tempId, error |-> error]
SuccessCallback(tempId, message) ==
    [type |-> "callback", success |-> TRUE, tempId |-> tempId, message |-> message]

\* if (callback) callback(error); socket.emit('message_error', error)
ReplyError(r, error) ==
    Emit(IF r.cb THEN Emit(outbox, r.sock, ErrorCallback(r.tempId, error))
         ELSE outbox,
         r.sock, MessageError(r.tempId, error))

\* Mutant: the sender is taken from a field of the data.
NewSend_ClientSender(s, data) ==
    [kind |-> "send_message", sock |-> s,
     userId |-> IF data.receiverId = Null THEN sockets[s].userId[1]
                ELSE data.receiverId[1],
     receiverId |-> data.receiverId, content |-> data.content,
     tempId |-> data.tempId, cb |-> data.cb,
     pc |-> "lookup", error |-> Null, result |-> Null,
     recipientSocketId |-> Null, registeredAtInsert |-> Null]

NewSend(s, data) ==
    [kind |-> "send_message", sock |-> s, userId |-> sockets[s].userId[1],
     receiverId |-> data.receiverId, content |-> data.content,
     tempId |-> data.tempId, cb |-> data.cb,
     pc |-> "lookup", error |-> Null, result |-> Null,
     recipientSocketId |-> Null, registeredAtInsert |-> Null]

\* A content that is truthy and not a string (a number, an object): the data
\* says so in a typeof field, which the data of string contents do not have.
\* content.trim() at messageHandler.js 31, before the try, throws on it.
NotAString(data) == "typeof" \in DOMAIN data /\ data.typeof # "string"
TypeError == "content.trim is not a function"

\* messageHandler.js 20-50: the event arrives on a connected socket; a truthy
\* content that is not a string makes the handler throw before it answers;
\* invalid input is answered at once, otherwise the receiver lookup is awaited.
SendMessage(s, data) ==
    /\ Connected(s)
    /\ LET r == NewSend(s, data)
           bad == SendValidation(data.receiverId, data.content) IN
        IF NotAString(data) /\ data.receiverId # Null
        THEN /\ reqs' = Append(reqs, [r EXCEPT !.pc = "done", !.error = Some(TypeError)])
             /\ UNCHANGED outbox
        ELSE IF bad # Null
        THEN /\ reqs' = Append(reqs, [r EXCEPT !.pc = "done", !.error = bad])
             /\ outbox' = ReplyError(r, bad[1])
        ELSE /\ reqs' = Append(reqs, r)
             /\ UNCHANGED outbox
    /\ UNCHANGED <<users, messages, connectedUsers, sockets, now>>

\* Mutant: the result of the receiver lookup is not looked at.
SendLookup_NoCheck(h) ==
    /\ reqs[h].kind = "send_message" /\ reqs[h].pc = "lookup"
    /\ reqs' = SetReq(h, [reqs[h] EXCEPT !.pc = "insert"])
    /\ UNCHANGED <<users, messages, connectedUsers, sockets, outbox, now>>

\* messageHandler.js 47-65: the receiver lookup returns; no row is answered
\* with an error, otherwise the insert is awaited.
SendLookup(h) ==
    /\ reqs[h].kind = "send_message" /\ reqs[h].pc = "lookup"
    /\ IF reqs[h].receiverId[1] \in Users
       THEN /\ reqs' = SetReq(h, [reqs[h] EXCEPT !.pc = "insert"])
            /\ UNCHANGED outbox
       ELSE /\ reqs' = SetReq(h, [reqs[h] EXCEPT !.pc = "done",
                                    !.error = Some("Recipient not found")])
            /\ outbox' = ReplyError(reqs[h], "Recipient not found")
    /\ UNCHANGED <<users, messages, connectedUsers, sockets, now>>

\* The row INSERT INTO messages (sender_id, receiver_id, content) creates;
\* the other columns take the defaults of the schema.
NewRow(id, sender, receiver, content, t) ==
    [id |-> id, sender_id |-> sender, receiver_id |-> receiver, content |-> content,
     created_at |-> t, is_read |-> FALSE, read_at |-> Null,
     is_deleted |-> FALSE, deleted_at |-> Null,
     is_edited |-> FALSE, edited_at |-> Null, original_content |-> Null]

\* Mutant: the content is inserted as it was sent.
InsertedContent_Untrimmed(content) == content

\* The third parameter of the insert: content.trim(), messageHandler.js 64
InsertedContent(content) == Trim(content)

\* Mutant: the handler goes on to confirm a row that was never written.
SendInsert_NotWritten(h) ==
    /\ reqs[h].kind = "send_message" /\ reqs[h].pc = "insert"
    /\ LET r == reqs[h]
           row == NewRow(Len(messages) + 1, r.userId, r.receiverId[1],
                         InsertedContent(r.content[1]), now) IN
        reqs' = SetReq(h, [r EXCEPT !.pc = "ack", !.result = Some(row),
                             !.registeredAtInsert = RegistryGet(r.receiverId[1])])
    /\ UNCHANGED <<users, messages, connectedUsers, sockets, outbox, now>>

\* messageHandler.js 60-65: the insert takes effect in the store.
SendInsert(h) ==
    /\ reqs[h].kind = "send_message" /\ reqs[h].pc = "insert"
    /\ LET r == reqs[h]
           row == NewRow(Len(messages) + 1, r.userId, r.receiverId[1],
                         InsertedContent(r.content[1]), now) IN
        /\ messages' = Append(messages, row)
        /\ reqs' = SetReq(h, [r EXCEPT !.pc = "ack", !.result = Some(row),
                                !.registeredAtInsert = RegistryGet(r.receiverId[1])])
    /\ UNCHANGED <<users, connectedUsers, sockets, outbox, now>>

\* messageHandler.js 67-76: the message object built from the returned row
MessageOf(row, r) ==
    [id |-> row.id, senderId |-> row.sender_id, receiverId |-> row.receiver_id,
     content |-> row.content, createdAt |-> row.created_at, isRead |-> row.is_read,
     readAt |-> row.read_at, senderUsername |-> Username(r.userId)]

MessageSent(tempId, message) ==
    [type |-> "message_sent", tempId |-> tempId, message |-> message]
ReceiveMessage(message) == [type |-> "receive_message", message |-> message]

\* messageHandler.js 81-83: the confirmation to the sender
Acknowledge(r, message) ==
    Emit(IF r.cb THEN Emit(outbox, r.sock, SuccessCallback(r.tempId, message))
         ELSE outbox,
         r.sock, MessageSent(r.tempId, message))

\* Mutant: the message is pushed to every socket in the namespace.
Deliver_ToEveryone(box, recipientSocketId, message) ==
    [i \in DOMAIN box |->
        IF Connected(i) THEN Append(box[i], ReceiveMessage(message)) ELSE box[i]]

\* messageHandler.js 86-92: deliver to the recipient if the registry has it
Deliver(box, recipientSocketId, message) ==
    IF recipientSocketId # Null
    THEN EmitTo(box, recipientSocketId[1], ReceiveMessage(message))
    ELSE box

\* messageHandler.js 67-92: the continuation of the insert confirms to the
\* sender and pushes to the recipient's registered socket.
SendAck(h) ==
    /\ reqs[h].kind = "send_message" /\ reqs[h].pc = "ack"
    /\ LET r == reqs[h]
           message == MessageOf(r.result[1], r)
           recipientSocketId == RegistryGet(r.receiverId[1]) IN
        /\ outbox' = Deliver(Acknowledge(r, message), recipientSocketId, message)
        /\ reqs' = SetReq(h, [r EXCEPT !.pc = "done",
                                !.recipientSocketId = recipientSocketId])
    /\ UNCHANGED <<users, messages, connectedUsers, sockets, now>>

\* Mutant: a store failure is not answered and costs the sender its
\* registration.
SendFails_Drops(h) ==
    /\ reqs[h].kind = "send_message" /\ reqs[h].pc \in {"lookup", "insert"}
    /\ reqs' = SetReq(h, [reqs[h] EXCEPT !.pc = "done",
                            !.error = Some("Failed to send message")])
    /\ connectedUsers' = RegistryDelete(reqs[h].userId)
    /\ UNCHANGED <<users, messages, sockets, outbox, now>>

\* messageHandler.js 94-99: the lookup or the insert throws; the catch
\* answers with the generic failure.
SendFails(h) ==
    /\ reqs[h].kind = "send_message" /\ reqs[h].pc \in {"lookup", "insert"}
    /\ reqs' = SetReq(h, [reqs[h] EXCEPT !.pc = "done",
                            !.error = Some("Failed to send message")])
    /\ outbox' = ReplyError(reqs[h], "Failed to send message")
    /\ UNCHANGED <<users, messages, connectedUsers, sockets, now>>

----------------------------------------------------------------------------
(* Specifications *)

\* What clients do to connections, with the tokens they may present.
ConnectInput(max, tokens) ==
    \/ Inputs < max /\ \E token \in tokens : Handshake(token)
    \/ Inputs < max /\ \E s \in SocketIds : Disconnect(s)

\* The steps the server takes for a connection once the store has answered.
ConnectSteps ==
    \/ \E s \in SocketIds : AuthUpdate(s)
    \/ \E s \in SocketIds : Connection(s)
    \/ \E s \in SocketIds : DisconnectUpdate(s)
    \/ \E s \in SocketIds : DisconnectBroadcast(s)

SendInput(max, inputs) ==
    Inputs < max /\ \E s \in SocketIds, data \in inputs : SendMessage(s, data)

SendSteps ==
    \/ \E h \in ReqIds : SendLookup(h)
    \/ \E h \in ReqIds : SendInsert(h)
    \/ \E h \in ReqIds : SendAck(h)

\* Connections and send_message, with a store that may fail under a send.
Next ==
    \/ ConnectInput(MaxInputs, GoodTokens)
    \/ SendInput(MaxInputs, SendInputs)
    \/ ConnectSteps
    \/ SendSteps
    \/ \E h \in ReqIds : SendFails(h)

Spec == Init /\ [][Next]_vars

----------------------------------------------------------------------------
(* Reading the state *)

IsSend(h) == reqs[h].kind = "send_message"

\* The catch of the handler answered: a store call threw.
StoreFailed(r) == r.error = Some("Failed to send message")

\* The events emitted to socket t by the step being taken.
NewEvents(t) == SubSeq(outbox'[t], Len(outbox[t]) + 1, Len(outbox'[t]))

\* The positions of outbox[t] that hold an event of one type.
EventsOfType(t, type) == {i \in 1..Len(outbox[t]) : outbox[t][i].type = type}

CarriesMessage(ev) == "message" \in DOMAIN ev

----------------------------------------------------------------------------
(* C1 *)

\* The input passes the checks of the handler: receiver and content given,
\* the content not blank and its untrimmed length at most 5000.
C1_Accepted(r) ==
    /\ r.receiverId # Null /\ r.content # Null
    /\ StrLen(Trim(r.content[1])) >= 1
    /\ StrLen(r.content[1]) <= MaxContentLen

\* The request persisted one row of its own and was confirmed: its row has the
\* connection's user as sender, the named receiver and the trimmed content,
\* and exactly one message_sent for it is on the sender's socket, carrying the
\* trimmed content and the tempId of the request.
C1_PersistedAndConfirmed(h) ==
    LET r == reqs[h] IN
    /\ r.result # Null
    /\ LET id == r.result[1].id
           acks == {i \in EventsOfType(r.sock, "message_sent") :
                        outbox[r.sock][i].message.id = id} IN
        /\ id \in 1..Len(messages)
        /\ messages[id].sender_id = r.userId
        /\ messages[id].receiver_id = r.receiverId[1]
        /\ messages[id].content = Trim(r.content[1])
        /\ \A g \in ReqIds \ {h} :
              IsSend(g) /\ reqs[g].result # Null => reqs[g].result[1].id # id
        /\ Cardinality(acks) = 1
        /\ \A i \in acks :
              /\ outbox[r.sock][i].tempId = r.tempId
              /\ outbox[r.sock][i].message.content = Trim(r.content[1])

----------------------------------------------------------------------------
(* C2 *)

\* The content is empty after trimming or longer than 5000 characters.
C2_Invalid(content) ==
    /\ content # Null
    /\ StrLen(Trim(content[1])) = 0 \/ StrLen(content[1]) > MaxContentLen

\* Every event is an error answer tagged with the tempId, and one of them is
\* the message_error event.
ErrorAnswers(evs, tempId) ==
    /\ \E i \in 1..Len(evs) : evs[i].type = "message_error"
    /\ \A i \in 1..Len(evs) :
          /\ evs[i].type \in {"message_error", "callback"}
          /\ "error" \in DOMAIN evs[i]
          /\ evs[i].tempId = tempId

\* C2: the step that takes a send_message whose content is blank or longer
\* than 5000 characters finishes the handler, leaves the messages table as it
\* is, emits nothing to any other socket, and answers the sender with an error
\* that carries the tempId of the request.
C2_InvalidContentRejected ==
    [][LET n == Len(reqs) IN
       (/\ Len(reqs') = n + 1
        /\ reqs'[n + 1].kind = "send_message"
        /\ C2_Invalid(reqs'[n + 1].content))
       => LET r == reqs'[n + 1] IN
          /\ r.pc = "done" /\ r.result = Null
          /\ messages' = messages
          /\ \A t \in SocketIds \ {r.sock} : outbox'[t] = outbox[t]
          /\ ErrorAnswers(NewEvents(r.sock), r.tempId)]_vars

\* An over-long content whose trimmed length is within the limit was refused.
C2_Witness ==
    \E h \in ReqIds :
        /\ IsSend(h) /\ reqs[h].pc = "done" /\ C2_Invalid(reqs[h].content)
        /\ StrLen(Trim(reqs[h].content[1])) \in 1..MaxContentLen
        /\ \E i \in EventsOfType(reqs[h].sock, "message_error") :
              outbox[reqs[h].sock][i].tempId = reqs[h].tempId

----------------------------------------------------------------------------
(* C3 *)

----------------------------------------------------------------------------
(* C4 *)

\* The row an event's message object speaks of is in the table.
Stored(message) ==
    /\ message.id \in 1..Len(messages)
    /\ messages[message.id].sender_id = message.senderId
    /\ messages[message.id].receiver_id = message.receiverId
    /\ messages[message.id].created_at = message.createdAt

\* C4: every message_sent, receive_message and success callback that has been
\* emitted carries a message whose row is in the messages table (rows are
\* never removed, so it was there when the event was emitted).
C4_PersistBeforeAckAndPush ==
    \A t \in SocketIds : \A i \in 1..Len(outbox[t]) :
        CarriesMessage(outbox[t][i]) => Stored(outbox[t][i].message)

\* One send was confirmed and pushed while another is between its insert and
\* its confirmation.
C4_Witness ==
    \E h, g \in ReqIds :
        /\ IsSend(h) /\ IsSend(g)
        /\ reqs[h].pc = "done" /\ reqs[h].recipientSocketId # Null
        /\ reqs[g].pc = "ack"
        /\ \E t \in SocketIds : EventsOfType(t, "receive_message") # {}

----------------------------------------------------------------------------
(* C5 *)

\* The receive_message events the step emits to socket t.
Pushes(t) ==
    {i \in 1..Len(NewEvents(t)) : NewEvents(t)[i].type = "receive_message"}

\* The message object is the row as it was persisted.
CarriesRow(message, row) ==
    /\ message.id = row.id
    /\ message.senderId = row.sender_id
    /\ message.receiverId = row.receiver_id
    /\ message.content = row.content
    /\ message.createdAt = row.created_at

\* C5: at the step that confirms a persisted message, if the registry holds a
\* socket for the message's receiver, that socket is a connection of the
\* receiver and exactly one receive_message, carrying the persisted row, is
\* emitted to it and none to any other socket; if the registry holds no entry
\* for the receiver, no receive_message is emitted at all.
C5_PushToRegisteredReceiverOnly ==
    [][\A h \in ReqIds :
        (IsSend(h) /\ reqs[h].pc = "ack" /\ reqs'[h].pc = "done")
        => LET row == reqs[h].result[1]
               reg == RegistryGet(row.receiver_id) IN
           IF reg # Null
           THEN /\ sockets[reg[1]].userId = Some(row.receiver_id)
                /\ Cardinality(Pushes(reg[1])) = 1
                /\ \A i \in Pushes(reg[1]) :
                      CarriesRow(NewEvents(reg[1])[i].message, row)
                /\ messages[row.id].content = row.content
                /\ \A t \in SocketIds \ {reg[1]} : Pushes(t) = {}
           ELSE \A t \in SocketIds : Pushes(t) = {}]_vars

\* A message was pushed to the receiver's socket, which is not the sender's.
C5_Witness ==
    \E h \in ReqIds :
        /\ IsSend(h) /\ reqs[h].pc = "done" /\ reqs[h].recipientSocketId # Null
        /\ reqs[h].recipientSocketId[1] # reqs[h].sock
        /\ EventsOfType(reqs[h].recipientSocketId[1], "receive_message") # {}

----------------------------------------------------------------------------
(* The registry under connects and disconnects *)

\* The store calls of the connection path may throw.
ConnectFails(max, tokens) ==
    \/ Inputs < max /\ \E token \in tokens : HandshakeFails(token)
    \/ \E s \in SocketIds : AuthUpdateFails(s)
    \/ \E s \in SocketIds : DisconnectUpdateFails(s)

\* Handshakes with every kind of token, disconnects, a store that may fail
\* and a clock that advances.
RegistryNext ==
    \/ ConnectInput(MaxRegistryInputs, AllTokens)
    \/ ConnectFails(MaxRegistryInputs, GoodTokens)
    \/ ConnectSteps
    \/ Tick

SpecRegistry == Init /\ [][RegistryNext]_vars

\* The step being taken runs the connection handler of socket s.
Registers(s) == sockets[s].state = "auth_next" /\ sockets'[s].state = "connected"

\* The step being taken runs the disconnect handler of socket s.
Disconnects(s) == Connected(s) /\ sockets'[s].state = "closing"

SocketsOf(u) == {s \in SocketIds : sockets[s].userId = Some(u)}

\* C7: the disconnect handler of a connection removes the registry entry of
\* its user only if the entry still refers to that connection; when the entry
\* refers to a newer connection of the user, it is still there afterwards.
C7_UnregisterOnlyOwnEntry ==
    [][\A s \in SocketIds :
        Disconnects(s) =>
            LET u == sockets[s].userId[1] IN
            RegistryGet(u) # Some(s) => RegistryGet(u)' = RegistryGet(u)]_vars

\* C8: every registry entry is one connection, authenticated as the user it
\* is filed under; the connection handler of a socket leaves the entry of its
\* user referring to that socket, whatever it held before; and no step but a
\* connection or disconnect handler of the user's sockets changes the entry.
C8_LastRegistrationWins ==
    /\ [](\A u \in DOMAIN connectedUsers :
            /\ connectedUsers[u] \in SocketIds
            /\ sockets[connectedUsers[u]].userId = Some(u))
    /\ [][\A u \in Users :
            /\ \A s \in SocketsOf(u) : Registers(s) => RegistryGet(u)' = Some(s)
            /\ (\A s \in SocketsOf(u) : ~Registers(s) /\ ~Disconnects(s))
                    => RegistryGet(u)' = RegistryGet(u)]_vars

\* Two connections of one user are live and the registry refers to the one
\* that shook hands first and registered last.
C8_Witness ==
    \E u \in Users : \E s, t \in SocketsOf(u) :
        /\ s < t /\ Connected(s) /\ Connected(t)
        /\ sockets[t].connectedAt[1] < sockets[s].connectedAt[1]
        /\ RegistryGet(u) = Some(s)


----------------------------------------------------------------------------
(* Marking as read: the mark_read event, messageHandler.js 106-141, and   *)
(* PUT /api/messages/read, routes/messages.js 268-300                     *)

\* A messageIds field: Null is a missing field, otherwise a value that is an
\* array of ids or is not an array.
IdArray(ids) == Some([array |-> TRUE, items |-> ids])
NotAnArray == Some([array |-> FALSE, items |-> <<>>])

\* !messageIds || !Array.isArray(messageIds) || messageIds.length === 0
NoIds(messageIds) ==
    messageIds = Null \/ ~messageIds[1].array \/ Len(messageIds[1].items) = 0

\* id = ANY($2)
Any(id, messageIds) == \E k \in DOMAIN messageIds[1].items : messageIds[1].items[k] = id

\* Mutant: the update does not ask whether the row is still unread.
MarkReadRows_AlsoRead(rows, readAt, messageIds, reader) ==
    [i \in DOMAIN rows |->
        IF Any(rows[i].id, messageIds) /\ rows[i].receiver_id = reader
        THEN [rows[i] EXCEPT !.is_read = TRUE, !.read_at = Some(readAt)]
        ELSE rows[i]]

\* Mutant: the update does not ask whose message the row is.
MarkReadRows_AnyReceiver(rows, readAt, messageIds, reader) ==
    [i \in DOMAIN rows |->
        IF Any(rows[i].id, messageIds) /\ rows[i].is_read = FALSE
        THEN [rows[i] EXCEPT !.is_read = TRUE, !.read_at = Some(readAt)]
        ELSE rows[i]]

\* UPDATE messages SET is_read = true, read_at = $1
\* WHERE id = ANY($2) AND receiver_id = $3 AND is_read = false
MarkReadRows(rows, readAt, messageIds, reader) ==
    [i \in DOMAIN rows |->
        IF /\ Any(rows[i].id, messageIds)
           /\ rows[i].receiver_id = reader
           /\ rows[i].is_read = FALSE
        THEN [rows[i] EXCEPT !.is_read = TRUE, !.read_at = Some(readAt)]
        ELSE rows[i]]

\* The data of a mark_read event: { messageIds, senderId }
MarkData(messageIds, senderId) == [messageIds |-> messageIds, senderId |-> senderId]

MarkInputs ==
    {MarkData(IdArray(<<1, 2, 3>>), Some("u1")),
     MarkData(IdArray(<<2, 2>>), Null),
     MarkData(IdArray(<<>>), Some("u1")),
     MarkData(NotAnArray, Some("u2"))}

NewMark(s, data) ==
    [kind |-> "mark_read", sock |-> s, userId |-> sockets[s].userId[1],
     messageIds |-> data.messageIds, senderId |-> data.senderId,
     readAt |-> now, pc |-> "update", error |-> Null]

\* messageHandler.js 106-122: the event arrives; without ids the handler
\* returns, otherwise it reads the clock and awaits the update.
MarkRead(s, data) ==
    /\ Connected(s)
    /\ reqs' = Append(reqs,
            IF NoIds(data.messageIds)
            THEN [NewMark(s, data) EXCEPT !.pc = "done",
                                          !.error = Some("no message ids")]
            ELSE NewMark(s, data))
    /\ UNCHANGED <<users, messages, connectedUsers, sockets, outbox, now>>

\* messageHandler.js 117-122: the update takes effect in the store.
MarkReadUpdate(h) ==
    /\ reqs[h].kind = "mark_read" /\ reqs[h].pc = "update"
    /\ messages' = MarkReadRows(messages, reqs[h].readAt, reqs[h].messageIds,
                                reqs[h].userId)
    /\ reqs' = SetReq(h, [reqs[h] EXCEPT !.pc = "notify"])
    /\ UNCHANGED <<users, connectedUsers, sockets, outbox, now>>

MessagesRead(messageIds, readAt, readBy) ==
    [type |-> "messages_read", messageIds |-> messageIds, readAt |-> readAt,
     readBy |-> readBy]

\* messageHandler.js 126-136: the continuation notifies the socket registered
\* for the senderId the client named.
MarkReadNotify(h) ==
    /\ reqs[h].kind = "mark_read" /\ reqs[h].pc = "notify"
    /\ LET r == reqs[h]
           senderSocketId == IF r.senderId = Null THEN Null
                             ELSE RegistryGet(r.senderId[1]) IN
        outbox' = IF senderSocketId # Null
                  THEN EmitTo(outbox, senderSocketId[1],
                              MessagesRead(r.messageIds[1].items, r.readAt, r.userId))
                  ELSE outbox
    /\ reqs' = SetReq(h, [reqs[h] EXCEPT !.pc = "done"])
    /\ UNCHANGED <<users, messages, connectedUsers, sockets, now>>

\* messageHandler.js 138-140: the update throws; the error is logged.
MarkReadFails(h) ==
    /\ reqs[h].kind = "mark_read" /\ reqs[h].pc = "update"
    /\ reqs' = SetReq(h, [reqs[h] EXCEPT !.pc = "done",
                            !.error = Some("Mark read error")])
    /\ UNCHANGED <<users, messages, connectedUsers, sockets, outbox, now>>

\* The body of PUT /read: { messageIds }
PutBodies == {IdArray(<<1, 2, 3>>), Null}

NewPutRead(u, messageIds) ==
    [kind |-> "put_read", userId |-> u, messageIds |-> messageIds,
     readAt |-> now, pc |-> "update", error |-> Null, status |-> Null]

\* routes/messages.js 268-287: the request of an authenticated user; without
\* ids it is answered 400, otherwise the clock is read and the update awaited.
PutRead(u, messageIds) ==
    /\ reqs' = Append(reqs,
            IF NoIds(messageIds)
            THEN [NewPutRead(u, messageIds) EXCEPT
                    !.pc = "done", !.status = Some(400),
                    !.error = Some("Message IDs array is required")]
            ELSE NewPutRead(u, messageIds))
    /\ UNCHANGED <<users, messages, connectedUsers, sockets, outbox, now>>

\* routes/messages.js 282-287: the update takes effect in the store.
PutReadUpdate(h) ==
    /\ reqs[h].kind = "put_read" /\ reqs[h].pc = "update"
    /\ messages' = MarkReadRows(messages, reqs[h].readAt, reqs[h].messageIds,
                                reqs[h].userId)
    /\ reqs' = SetReq(h, [reqs[h] EXCEPT !.pc = "respond"])
    /\ UNCHANGED <<users, connectedUsers, sockets, outbox, now>>

\* routes/messages.js 289-292: the continuation answers with readAt.
PutReadRespond(h) ==
    /\ reqs[h].kind = "put_read" /\ reqs[h].pc = "respond"
    /\ reqs' = SetReq(h, [reqs[h] EXCEPT !.pc = "done", !.status = Some(200)])
    /\ UNCHANGED <<users, messages, connectedUsers, sockets, outbox, now>>

\* routes/messages.js 293-299: the update throws; the answer is 500.
PutReadFails(h) ==
    /\ reqs[h].kind = "put_read" /\ reqs[h].pc = "update"
    /\ reqs' = SetReq(h, [reqs[h] EXCEPT
                            !.pc = "done", !.status = Some(500),
                            !.error = Some("Failed to mark messages as read")])
    /\ UNCHANGED <<users, messages, connectedUsers, sockets, outbox, now>>


\* A messages table as earlier runs of the server left it: rows written by
\* send_message, the third already read by its receiver.
StoredMessages ==
    << NewRow(1, "u1", "u2", InsertedContent(Hi), 0),
       NewRow(2, "u2", "u1", InsertedContent(Padded), 0),
       [NewRow(3, "u1", "u2", InsertedContent(Hi), 0) EXCEPT
            !.is_read = TRUE, !.read_at = Some(0)],
       NewRow(4, "u1", "u2", InsertedContent(Longest), 0) >>

\* The server starts on a store that holds messages.
InitStored ==
    /\ users = [u \in Users |->
                    [is_online |-> FALSE, last_seen |-> Null, refresh_token |-> Null]]
    /\ messages = StoredMessages
    /\ connectedUsers = <<>>
    /\ sockets = <<>>
    /\ outbox = <<>>
    /\ reqs = <<>>
    /\ now = 0

MarkInput(max, inputs) ==
    Inputs < max /\ \E s \in SocketIds, data \in inputs : MarkRead(s, data)

PutInput(max, bodies) ==
    Inputs < max /\ \E u \in Users, messageIds \in bodies : PutRead(u, messageIds)

ReadSteps ==
    \/ \E h \in ReqIds : MarkReadUpdate(h)
    \/ \E h \in ReqIds : MarkReadNotify(h)
    \/ \E h \in ReqIds : PutReadUpdate(h)
    \/ \E h \in ReqIds : PutReadRespond(h)

ReadFails ==
    \/ \E h \in ReqIds : MarkReadFails(h)
    \/ \E h \in ReqIds : PutReadFails(h)

\* Connections, mark_read events and PUT /read requests over stored
\* messages, with a store that may fail and a clock that advances.
ReadNext ==
    \/ ConnectInput(MaxReadInputs, GoodTokens)
    \/ ConnectSteps
    \/ MarkInput(MaxReadInputs, MarkInputs)
    \/ PutInput(MaxReadInputs, PutBodies)
    \/ ReadSteps
    \/ ReadFails
    \/ Tick

SpecRead == InitStored /\ [][ReadNext]_vars


IsMarkRead(h) == reqs[h].kind \in {"mark_read", "put_read"}

\* The step being taken is the update of request h taking effect.
Updates(h) ==
    IsMarkRead(h) /\ reqs[h].pc = "update" /\ reqs'[h].pc \in {"notify", "respond"}

\* The update of request g has taken effect.
Updated(g) ==
    IsMarkRead(g) /\ reqs[g].pc \in {"notify", "respond", "done"} /\ reqs[g].error = Null

\* C9: when a reader's markRead has taken effect, a markRead of the same
\* reader with the same message ids changes no message row: the flags and
\* the read-at timestamps stay as the first call wrote them.
C9_MarkReadIdempotent ==
    [][\A h \in ReqIds :
        (/\ Updates(h)
         /\ \E g \in ReqIds \ {h} :
                /\ Updated(g)
                /\ reqs[g].userId = reqs[h].userId
                /\ reqs[g].messageIds = reqs[h].messageIds)
        => messages' = messages]_vars

\* Two calls of one reader with the same ids have taken effect, the second
\* with a later clock reading, and a message of the reader among the ids
\* carries the read-at of the first.
C9_Witness ==
    \E g, h \in ReqIds :
        /\ Updated(g) /\ Updated(h)
        /\ reqs[g].userId = reqs[h].userId
        /\ reqs[g].messageIds = reqs[h].messageIds
        /\ reqs[g].readAt < reqs[h].readAt
        /\ \E i \in DOMAIN messages :
            /\ Any(messages[i].id, reqs[g].messageIds)
            /\ messages[i].receiver_id = reqs[g].userId
            /\ messages[i].read_at = Some(reqs[g].readAt)
            /\ messages[i].read_at # StoredMessages[i].read_at

\* C10: the update of markRead(reader, ids) sets the read flag and the one
\* read-at the call took from the clock on the unread messages among ids
\* whose receiver is the reader, and changes nothing else of them; messages
\* of another receiver, messages outside ids and messages already read are
\* left as they were, and no row appears or disappears.
C10_MarkReadFrame ==
    [][\A h \in ReqIds :
        Updates(h) =>
            LET r == reqs[h] IN
            /\ DOMAIN messages' = DOMAIN messages
            /\ \A i \in DOMAIN messages :
                /\ (/\ Any(messages[i].id, r.messageIds)
                    /\ messages[i].receiver_id = r.userId
                    /\ ~messages[i].is_read)
                    => messages'[i] = [messages[i] EXCEPT !.is_read = TRUE,
                                                          !.read_at = Some(r.readAt)]
                /\ messages[i].receiver_id # r.userId => messages'[i] = messages[i]
                /\ ~Any(messages[i].id, r.messageIds) => messages'[i] = messages[i]
                /\ messages[i].is_read => messages'[i] = messages[i]]_vars

\* A call has taken effect whose ids name a message it marked, a message of
\* another receiver and a message read earlier, with an unread message of the
\* reader outside the ids.
C10_Witness ==
    \E h \in ReqIds :
        /\ Updated(h)
        /\ \E i, j, k, l \in DOMAIN messages :
            /\ Any(messages[i].id, reqs[h].messageIds)
            /\ messages[i].receiver_id = reqs[h].userId
            /\ messages[i].is_read /\ messages[i].read_at = Some(reqs[h].readAt)
            /\ Any(messages[j].id, reqs[h].messageIds)
            /\ messages[j].receiver_id # reqs[h].userId /\ ~messages[j].is_read
            /\ Any(messages[k].id, reqs[h].messageIds)
            /\ messages[k].receiver_id = reqs[h].userId
            /\ messages[k].is_read /\ messages[k].read_at # Some(reqs[h].readAt)
            /\ ~Any(messages[l].id, reqs[h].messageIds)
            /\ messages[l].receiver_id = reqs[h].userId /\ ~messages[l].is_read


----------------------------------------------------------------------------
(* get_history: messageHandler.js 147-204 *)

DefaultLimit == 50

\* The data of a get_history event: { partnerId, limit, before } and whether
\* a callback came with it.  Null is a missing field.
HistoryData(partnerId, limit, before, cb) ==
    [partnerId |-> partnerId, limit |-> limit, before |-> before, cb |-> cb]

HistoryInputs ==
    {HistoryData(Some("u1"), Null, Null, TRUE),
     HistoryData(Some("u1"), Some(1), Null, TRUE),
     HistoryData(Null, Null, Null, TRUE)}

NewHistory(s, data) ==
    [kind |-> "get_history", sock |-> s, userId |-> sockets[s].userId[1],
     partnerId |-> data.partnerId,
     limit |-> IF data.limit = Null THEN DefaultLimit ELSE data.limit[1],
     before |-> data.before, cb |-> data.cb,
     pc |-> "query", error |-> Null, rows |-> <<>>]

HistoryError(error) == [type |-> "callback", error |-> error]

\* messageHandler.js 147-176: the event arrives; without a partner the
\* callback gets an error, otherwise the query is awaited.
GetHistory(s, data) ==
    /\ Connected(s)
    /\ LET r == NewHistory(s, data) IN
        IF data.partnerId = Null
        THEN /\ reqs' = Append(reqs, [r EXCEPT !.pc = "done",
                                        !.error = Some("Partner ID is required")])
             /\ outbox' = IF r.cb
                          THEN Emit(outbox, s, HistoryError("Partner ID is required"))
                          ELSE outbox
        ELSE /\ reqs' = Append(reqs, r)
             /\ UNCHANGED outbox
    /\ UNCHANGED <<users, messages, connectedUsers, sockets, now>>

\* Mutant: the query selects rows of every conversation.
InHistory_AnyConversation(row, userId, partnerId, before) ==
    before # Null => row.created_at < before[1]

\* WHERE ((sender_id = $1 AND receiver_id = $2) OR (sender_id = $2 AND
\* receiver_id = $1)) [AND created_at < $3]
InHistory(row, userId, partnerId, before) ==
    /\ \/ row.sender_id = userId /\ row.receiver_id = partnerId
       \/ row.sender_id = partnerId /\ row.receiver_id = userId
    /\ before # Null => row.created_at < before[1]

\* The ids of the rows the WHERE clause selects.
Selected(userId, partnerId, before) ==
    {i \in DOMAIN messages : InHistory(messages[i], userId, partnerId, before)}

Min(a, b) == IF a < b THEN a ELSE b

\* ORDER BY created_at DESC LIMIT n: the sequences of ids the store may
\* return; rows of equal created_at come in any order.
OrderedLimited(ids, n) ==
    {q \in [1..Min(n, Cardinality(ids)) -> ids] :
        /\ \A a, b \in DOMAIN q : a < b => q[a] # q[b]
        /\ \A a, b \in DOMAIN q :
            a < b => messages[q[a]].created_at >= messages[q[b]].created_at
        /\ \A i \in ids : (\A a \in DOMAIN q : q[a] # i) =>
            \A a \in DOMAIN q : messages[q[a]].created_at >= messages[i].created_at}

\* messageHandler.js 168-176: the query takes effect in the store.
HistoryQuery(g) ==
    /\ reqs[g].kind = "get_history" /\ reqs[g].pc = "query"
    /\ \E q \in OrderedLimited(
                    Selected(reqs[g].userId, reqs[g].partnerId[1], reqs[g].before),
                    reqs[g].limit) :
        reqs' = SetReq(g, [reqs[g] EXCEPT
                    !.pc = "callback",
                    !.rows = [a \in DOMAIN q |-> messages[q[a]]]])
    /\ UNCHANGED <<users, messages, connectedUsers, sockets, outbox, now>>

\* result.rows.map(...).reverse(): messageHandler.js 177-186
HistoryMessages(rows) ==
    [a \in DOMAIN rows |->
        LET row == rows[Len(rows) + 1 - a] IN
        [id |-> row.id, senderId |-> row.sender_id, receiverId |-> row.receiver_id,
         content |-> row.content, createdAt |-> row.created_at,
         isRead |-> row.is_read, readAt |-> row.read_at,
         senderUsername |-> Username(row.sender_id)]]

\* messageHandler.js 188-189
HasMore(rows, limit) == Len(rows) = limit
NextCursor(rows, limit) ==
    IF HasMore(rows, limit) /\ Len(rows) > 0
    THEN Some(rows[Len(rows)].created_at) ELSE Null

HistoryResult(rows, limit) ==
    [type |-> "callback", success |-> TRUE, messages |-> HistoryMessages(rows),
     hasMore |-> HasMore(rows, limit), nextCursor |-> NextCursor(rows, limit)]

\* messageHandler.js 177-198: the continuation builds the page and hands it
\* to the callback.
HistoryCallback(g) ==
    /\ reqs[g].kind = "get_history" /\ reqs[g].pc = "callback"
    /\ outbox' = IF reqs[g].cb
                 THEN Emit(outbox, reqs[g].sock,
                           HistoryResult(reqs[g].rows, reqs[g].limit))
                 ELSE outbox
    /\ reqs' = SetReq(g, [reqs[g] EXCEPT !.pc = "done"])
    /\ UNCHANGED <<users, messages, connectedUsers, sockets, now>>

\* messageHandler.js 200-203: the query throws.
HistoryFails(g) ==
    /\ reqs[g].kind = "get_history" /\ reqs[g].pc = "query"
    /\ outbox' = IF reqs[g].cb
                 THEN Emit(outbox, reqs[g].sock,
                           HistoryError("Failed to fetch message history"))
                 ELSE outbox
    /\ reqs' = SetReq(g, [reqs[g] EXCEPT !.pc = "done",
                            !.error = Some("Failed to fetch message history")])
    /\ UNCHANGED <<users, messages, connectedUsers, sockets, now>>


\* The sends of SpecHistory: valid ones, to one receiver.
HistorySends == {SendData(Some("u2"), Some(Padded), "t1", FALSE)}

HistoryInput(max, inputs) ==
    Inputs < max /\ \E s \in SocketIds, data \in inputs : GetHistory(s, data)

HistorySteps ==
    \/ \E g \in ReqIds : HistoryQuery(g)
    \/ \E g \in ReqIds : HistoryCallback(g)

\* Connections, valid sends and history fetches, with a store that may fail.
HistoryNext ==
    \/ ConnectInput(MaxHistoryInputs, GoodTokens)
    \/ ConnectSteps
    \/ SendInput(MaxHistoryInputs, HistorySends)
    \/ SendSteps
    \/ HistoryInput(MaxHistoryInputs, HistoryInputs)
    \/ HistorySteps
    \/ \E h \in ReqIds : SendFails(h)
    \/ \E g \in ReqIds : HistoryFails(g)

SpecHistory == Init /\ [][HistoryNext]_vars


IsHistory(g) == reqs[g].kind = "get_history"

\* The ids of the messages that receive_message events carried to socket t.
PushedIds(t) == {outbox[t][k].message.id : k \in EventsOfType(t, "receive_message")}

\* Message id was pushed to some socket.
Pushed(id) == \E t \in SocketIds : id \in PushedIds(t)

\* The step being taken is the query of request g taking effect.
Queries(g) == IsHistory(g) /\ reqs[g].pc = "query" /\ reqs'[g].pc = "callback"

\* The messages in the store that one of the caller of request g and its
\* partner sent to the other.
Conversation(g) ==
    {i \in DOMAIN messages :
        {messages[i].sender_id, messages[i].receiver_id}
            = {reqs[g].userId, reqs[g].partnerId[1]}}

\* The step being taken hands the page of request g to its callback.
CallsBack(g) ==
    IsHistory(g) /\ reqs[g].pc = "callback" /\ reqs'[g].pc = "done" /\ reqs[g].cb

\* The page handed to the callback holds the row.
InPage(ev, row) ==
    \E a \in DOMAIN ev.messages :
        /\ ev.messages[a].id = row.id
        /\ ev.messages[a].senderId = row.sender_id
        /\ ev.messages[a].receiverId = row.receiver_id
        /\ ev.messages[a].content = row.content

\* A get_history without a before cursor and with a limit that the
\* conversation does not exceed selects every row of the conversation, and
\* its callback gets every selected row.
HistoryReturnsAll(limited) ==
    \A g \in ReqIds :
        /\ (/\ Queries(g)
            /\ limited => /\ reqs[g].before = Null
                          /\ Cardinality(Conversation(g)) <= reqs[g].limit)
            => \A i \in Conversation(g) :
                    \E a \in DOMAIN reqs'[g].rows : reqs'[g].rows[a] = messages[i]
        /\ CallsBack(g) =>
            /\ Len(NewEvents(reqs[g].sock)) = 1
            /\ \A a \in DOMAIN reqs[g].rows :
                    InPage(NewEvents(reqs[g].sock)[1], reqs[g].rows[a])

----------------------------------------------------------------------------
(* Read receipts *)

\* The step being taken is the continuation of mark_read request h.
Notifies(h) ==
    reqs[h].kind = "mark_read" /\ reqs[h].pc = "notify" /\ reqs'[h].pc = "done"

\* The senders of the stored messages that the ids of request h name.
BatchSenders(h) ==
    {messages[i].sender_id :
        i \in {j \in DOMAIN messages : Any(messages[j].id, reqs[h].messageIds)}}

\* The messages_read events that the step being taken emits to socket t.
NewReceipts(t) ==
    {k \in DOMAIN NewEvents(t) : NewEvents(t)[k].type = "messages_read"}

\* C11: when the messages a mark_read names have one sender, its
\* continuation emits exactly one messages_read with the ids, the read-at and
\* the reader to the socket registered for that sender and none to any other
\* socket; when no socket is registered for the sender it emits none at all.
C11_ReceiptToBatchSender ==
    [][\A h \in ReqIds :
        (Notifies(h) /\ Cardinality(BatchSenders(h)) = 1) =>
            LET x == CHOOSE x \in BatchSenders(h) : TRUE
                senderSocketId == RegistryGet(x) IN
            /\ \A t \in SocketIds :
                IF senderSocketId = Some(t)
                THEN /\ Cardinality(NewReceipts(t)) = 1
                     /\ \A k \in NewReceipts(t) :
                            NewEvents(t)[k] =
                                MessagesRead(reqs[h].messageIds[1].items,
                                             reqs[h].readAt, reqs[h].userId)
                ELSE NewReceipts(t) = {}]_vars


----------------------------------------------------------------------------
(* Editing: the edit_message event, messageHandler.js 208-248, and        *)
(* PUT /api/messages/message/:messageId, routes/messages.js 362-437       *)

\* New contents of a message.
Edited == << <<"e", 2>> >>
PaddedEdit == << <<" ", 1>>, <<"f", 3>> >>

\* SELECT ... FROM messages WHERE id = $1: the positions of the rows found.
RowsWithId(id) == {i \in DOMAIN messages : messages[i].id = id}

\* The data of an edit_message event: { messageId, content, receiverId }
EditData(messageId, content, receiverId) ==
    [messageId |-> messageId, content |-> content, receiverId |-> receiverId]

EditInputs ==
    {EditData(1, Some(Edited), Some("u2")),
     EditData(1, Some(PaddedEdit), Some("u1"))}

NewEdit(s, data) ==
    [kind |-> "edit_message", sock |-> s, userId |-> sockets[s].userId[1],
     messageId |-> data.messageId, content |-> data.content,
     receiverId |-> data.receiverId, pc |-> "update", error |-> Null,
     found |-> FALSE,
     \* not in the code: whether the message was deleted when the event arrived
     deletedOnArrival |-> \E i \in RowsWithId(data.messageId) : messages[i].is_deleted]

\* messageHandler.js 208-220: the event arrives and the update is awaited.
EditMessage(s, data) ==
    /\ Connected(s)
    /\ reqs' = Append(reqs, NewEdit(s, data))
    /\ UNCHANGED <<users, messages, connectedUsers, sockets, outbox, now>>

\* Mutant: the edit also resets the read fields.
EditRows_Unread(rows, id, sender, content, t) ==
    [i \in DOMAIN rows |->
        IF rows[i].id = id /\ rows[i].sender_id = sender
        THEN [rows[i] EXCEPT !.content = content, !.is_edited = TRUE,
                             !.edited_at = Some(t), !.is_read = FALSE,
                             !.read_at = Null]
        ELSE rows[i]]

\* UPDATE messages SET content = $1, is_edited = true, edited_at = NOW()
\* WHERE id = $2 AND sender_id = $3
EditRows(rows, id, sender, content, t) ==
    [i \in DOMAIN rows |->
        IF rows[i].id = id /\ rows[i].sender_id = sender
        THEN [rows[i] EXCEPT !.content = content, !.is_edited = TRUE,
                             !.edited_at = Some(t)]
        ELSE rows[i]]

\* messageHandler.js 214-222: the update takes effect in the store and
\* returns the rows it changed.  (content is NOT NULL in the schema: an
\* update that would store no content throws instead.)
EditUpdate(h) ==
    /\ reqs[h].kind = "edit_message" /\ reqs[h].pc = "update"
    /\ LET r == reqs[h]
           hit == {i \in RowsWithId(r.messageId) : messages[i].sender_id = r.userId} IN
        /\ r.content = Null => hit = {}
        /\ messages' = IF hit = {} THEN messages
                       ELSE EditRows(messages, r.messageId, r.userId, r.content[1], now)
        /\ reqs' = SetReq(h, [r EXCEPT !.pc = "broadcast", !.found = hit # {}])
    /\ UNCHANGED <<users, connectedUsers, sockets, outbox, now>>

MessageUpdated(id, content, senderId) ==
    [type |-> "message_updated", id |-> id, content |-> content, isEdited |-> TRUE,
     senderId |-> senderId]

\* messageHandler.js 222-244: if a row was updated, message_updated goes to
\* the socket registered for the receiverId the client named and to the
\* editor's socket.
EditBroadcast(h) ==
    /\ reqs[h].kind = "edit_message" /\ reqs[h].pc = "broadcast"
    /\ LET r == reqs[h]
           ev == MessageUpdated(r.messageId, r.content, r.userId)
           recipientSocketId == IF r.receiverId = Null THEN Null
                                ELSE RegistryGet(r.receiverId[1]) IN
        outbox' = IF ~r.found THEN outbox
                  ELSE Emit(IF recipientSocketId # Null
                            THEN EmitTo(outbox, recipientSocketId[1], ev)
                            ELSE outbox,
                            r.sock, ev)
    /\ reqs' = SetReq(h, [reqs[h] EXCEPT !.pc = "done"])
    /\ UNCHANGED <<users, messages, connectedUsers, sockets, now>>

\* messageHandler.js 246-248: the update throws; the error is logged.
EditFails(h) ==
    /\ reqs[h].kind = "edit_message" /\ reqs[h].pc = "update"
    /\ reqs' = SetReq(h, [reqs[h] EXCEPT !.pc = "done",
                            !.error = Some("Edit message error")])
    /\ UNCHANGED <<users, messages, connectedUsers, sockets, outbox, now>>


\* A PUT /message/:messageId request: req.params.messageId, req.body.content
PutEditData(messageId, content) == [messageId |-> messageId, content |-> content]

PutEditInputs ==
    {PutEditData(1, Some(PaddedEdit)),
     PutEditData(1, Some(Blank))}

NewPutEdit(u, data) ==
    [kind |-> "put_edit", userId |-> u, messageId |-> data.messageId,
     content |-> data.content, pc |-> "check", error |-> Null, status |-> Null,
     old |-> Null,
     \* not in the code: whether the message was deleted when the request arrived
     deletedOnArrival |-> \E i \in RowsWithId(data.messageId) : messages[i].is_deleted]

\* The answer of a REST handler: res.status(code).json({ message })
Answer(r, code, message) ==
    [r EXCEPT !.pc = "done", !.status = Some(code), !.error = Some(message)]

\* routes/messages.js 362-380: the request of an authenticated user; without
\* content it is answered 400, otherwise the message is looked up.
PutEdit(u, data) ==
    /\ reqs' = Append(reqs,
            IF Falsy(data.content) \/ StrLen(Trim(data.content[1])) = 0
            THEN Answer(NewPutEdit(u, data), 400, "Message content is required")
            ELSE NewPutEdit(u, data))
    /\ UNCHANGED <<users, messages, connectedUsers, sockets, outbox, now>>

\* routes/messages.js 376-402: the lookup returns; an unknown message is
\* answered 404, another user's 403, a deleted one 400; otherwise the update
\* is awaited with the content that was read.
PutEditCheck(h) ==
    /\ reqs[h].kind = "put_edit" /\ reqs[h].pc = "check"
    /\ LET r == reqs[h]
           found == RowsWithId(r.messageId) IN
        reqs' = SetReq(h,
            IF found = {} THEN Answer(r, 404, "Message not found")
            ELSE LET message == messages[CHOOSE i \in found : TRUE] IN
                 IF message.sender_id # r.userId
                 THEN Answer(r, 403, "You can only edit your own messages")
                 ELSE IF message.is_deleted
                 THEN Answer(r, 400, "Cannot edit a deleted message")
                 ELSE [r EXCEPT !.pc = "update", !.old = Some(message.content)])
    /\ UNCHANGED <<users, messages, connectedUsers, sockets, outbox, now>>

\* UPDATE messages SET content = $1, is_edited = true, edited_at = NOW(),
\* original_content = COALESCE(original_content, $2) WHERE id = $3
PutEditRows(rows, id, content, old, t) ==
    [i \in DOMAIN rows |->
        IF rows[i].id = id
        THEN [rows[i] EXCEPT
                !.content = content, !.is_edited = TRUE, !.edited_at = Some(t),
                !.original_content = IF @ = Null THEN Some(old) ELSE @]
        ELSE rows[i]]

\* routes/messages.js 404-414: the update takes effect in the store, with
\* content.trim() and the content the lookup read.
PutEditUpdate(h) ==
    /\ reqs[h].kind = "put_edit" /\ reqs[h].pc = "update"
    /\ messages' = PutEditRows(messages, reqs[h].messageId,
                               Trim(reqs[h].content[1]), reqs[h].old[1], now)
    /\ reqs' = SetReq(h, [reqs[h] EXCEPT !.pc = "respond"])
    /\ UNCHANGED <<users, connectedUsers, sockets, outbox, now>>

\* routes/messages.js 416-428: the continuation answers with the row.
PutEditRespond(h) ==
    /\ reqs[h].kind = "put_edit" /\ reqs[h].pc = "respond"
    /\ reqs' = SetReq(h, [reqs[h] EXCEPT !.pc = "done", !.status = Some(200)])
    /\ UNCHANGED <<users, messages, connectedUsers, sockets, outbox, now>>

\* routes/messages.js 430-436: the lookup or the update throws.
PutEditFails(h) ==
    /\ reqs[h].kind = "put_edit" /\ reqs[h].pc \in {"check", "update"}
    /\ reqs' = SetReq(h, Answer(reqs[h], 500, "Failed to edit message"))
    /\ UNCHANGED <<users, messages, connectedUsers, sockets, outbox, now>>

----------------------------------------------------------------------------
(* Deleting: DELETE /api/messages/message/:messageId,                     *)
(* routes/messages.js 307-355                                             *)

\* '[Message deleted]'
Tombstone ==
    << <<"[", 1>>, <<"M", 1>>, <<"e", 1>>, <<"s", 2>>, <<"a", 1>>, <<"g", 1>>,
       <<"e", 1>>, <<" ", 1>>, <<"d", 1>>, <<"e", 1>>, <<"l", 1>>, <<"e", 1>>,
       <<"t", 1>>, <<"e", 1>>, <<"d", 1>>, <<"]", 1>> >>

\* The message ids of DELETE requests.
DeleteInputs == {1}

NewDelete(u, messageId) ==
    [kind |-> "delete", userId |-> u, messageId |-> messageId, pc |-> "check",
     error |-> Null, status |-> Null]

\* routes/messages.js 307-316: the request of an authenticated user; the
\* message is looked up.
Delete(u, messageId) ==
    /\ reqs' = Append(reqs, NewDelete(u, messageId))
    /\ UNCHANGED <<users, messages, connectedUsers, sockets, outbox, now>>

\* routes/messages.js 313-333: the lookup returns; an unknown message is
\* answered 404, another user's 403; otherwise the update is awaited.
DeleteCheck(h) ==
    /\ reqs[h].kind = "delete" /\ reqs[h].pc = "check"
    /\ LET r == reqs[h]
           found == RowsWithId(r.messageId) IN
        reqs' = SetReq(h,
            IF found = {} THEN Answer(r, 404, "Message not found")
            ELSE IF messages[CHOOSE i \in found : TRUE].sender_id # r.userId
            THEN Answer(r, 403, "You can only delete your own messages")
            ELSE [r EXCEPT !.pc = "update"])
    /\ UNCHANGED <<users, messages, connectedUsers, sockets, outbox, now>>

\* Mutant: the row is removed from the table.
DeleteRows_Removes(rows, id, t) ==
    SelectSeq(rows, LAMBDA row : row.id # id)

\* UPDATE messages SET is_deleted = true, deleted_at = NOW(),
\* content = '[Message deleted]' WHERE id = $1
DeleteRows(rows, id, t) ==
    [i \in DOMAIN rows |->
        IF rows[i].id = id
        THEN [rows[i] EXCEPT !.is_deleted = TRUE, !.deleted_at = Some(t),
                             !.content = Tombstone]
        ELSE rows[i]]

\* routes/messages.js 335-341: the update takes effect in the store.
DeleteUpdate(h) ==
    /\ reqs[h].kind = "delete" /\ reqs[h].pc = "update"
    /\ messages' = DeleteRows(messages, reqs[h].messageId, now)
    /\ reqs' = SetReq(h, [reqs[h] EXCEPT !.pc = "respond"])
    /\ UNCHANGED <<users, connectedUsers, sockets, outbox, now>>

\* Mutant: the route tells the registered socket of the receiver.
DeleteRespond_Notifies(h) ==
    /\ reqs[h].kind = "delete" /\ reqs[h].pc = "respond"
    /\ reqs' = SetReq(h, [reqs[h] EXCEPT !.pc = "done", !.status = Some(200)])
    /\ outbox' = [o \in DOMAIN outbox |->
                    IF \E i \in RowsWithId(reqs[h].messageId) :
                            RegistryGet(messages[i].receiver_id) = Some(o)
                    THEN Append(outbox[o], [type |-> "message_deleted",
                                            messageId |-> reqs[h].messageId])
                    ELSE outbox[o]]
    /\ UNCHANGED <<users, messages, connectedUsers, sockets, now>>

\* routes/messages.js 343-346: the continuation answers.
DeleteRespond(h) ==
    /\ reqs[h].kind = "delete" /\ reqs[h].pc = "respond"
    /\ reqs' = SetReq(h, [reqs[h] EXCEPT !.pc = "done", !.status = Some(200)])
    /\ UNCHANGED <<users, messages, connectedUsers, sockets, outbox, now>>

\* routes/messages.js 348-354: the lookup or the update throws.
DeleteFails(h) ==
    /\ reqs[h].kind = "delete" /\ reqs[h].pc \in {"check", "update"}
    /\ reqs' = SetReq(h, Answer(reqs[h], 500, "Failed to delete message"))
    /\ UNCHANGED <<users, messages, connectedUsers, sockets, outbox, now>>


----------------------------------------------------------------------------
(* Edits, deletes and reads of stored messages *)

EditInput(max, inputs) ==
    Inputs < max /\ \E s \in SocketIds, data \in inputs : EditMessage(s, data)

PutEditInput(max, inputs) ==
    Inputs < max /\ \E u \in Users, data \in inputs : PutEdit(u, data)

DeleteInput(max, inputs) ==
    Inputs < max /\ \E u \in Users, messageId \in inputs : Delete(u, messageId)

EditSteps ==
    \/ \E h \in ReqIds : EditUpdate(h)
    \/ \E h \in ReqIds : EditBroadcast(h)
    \/ \E h \in ReqIds : PutEditCheck(h)
    \/ \E h \in ReqIds : PutEditUpdate(h)
    \/ \E h \in ReqIds : PutEditRespond(h)

DeleteSteps ==
    \/ \E h \in ReqIds : DeleteCheck(h)
    \/ \E h \in ReqIds : DeleteUpdate(h)
    \/ \E h \in ReqIds : DeleteRespond(h)

EditFailures ==
    \/ \E h \in ReqIds : EditFails(h)
    \/ \E h \in ReqIds : PutEditFails(h)
    \/ \E h \in ReqIds : DeleteFails(h)

\* Connections, edit_message events and the REST requests that edit, delete
\* and mark as read, over stored messages, with a store that may fail.
EditNext ==
    \/ ConnectInput(MaxEditInputs, GoodTokens)
    \/ ConnectSteps
    \/ EditInput(MaxEditInputs, EditInputs)
    \/ PutEditInput(MaxEditInputs, PutEditInputs)
    \/ DeleteInput(MaxEditInputs, DeleteInputs)
    \/ PutInput(MaxEditInputs, {IdArray(<<1, 2, 3>>)})
    \/ EditSteps
    \/ DeleteSteps
    \/ \E h \in ReqIds : PutReadUpdate(h)
    \/ \E h \in ReqIds : PutReadRespond(h)
    \/ EditFailures

SpecEdit == InitStored /\ [][EditNext]_vars


IsEdit(h) == reqs[h].kind \in {"edit_message", "put_edit"}
IsDelete(h) == reqs[h].kind = "delete"

\* A store call of the request threw.
StoreError(r) ==
    r.error \in {Some("Edit message error"), Some("Failed to edit message"),
                 Some("Failed to delete message")}

\* The update of edit request h has changed a row.
EditTookEffect(h) ==
    \/ reqs[h].kind = "edit_message" /\ reqs[h].found
    \/ /\ reqs[h].kind = "put_edit"
       /\ reqs[h].pc = "respond" \/ (reqs[h].pc = "done" /\ reqs[h].status = Some(200))

\* C12: once two or more edits of a message have taken effect, through the
\* REST route or the edit_message event, original_content is the content the
\* message had before its first edit.  (The stored messages are unedited at
\* the start; a deleted message is left aside, its content was replaced.)
C12_OriginalContentKept ==
    \A i \in DOMAIN messages :
        (/\ ~messages[i].is_deleted
         /\ Cardinality({h \in ReqIds :
                /\ IsEdit(h) /\ EditTookEffect(h)
                /\ reqs[h].messageId = messages[i].id}) >= 2)
        => messages[i].original_content = Some(StoredMessages[i].content)


\* Request h is finished by the step being taken.
Finishes(h) == reqs[h].pc # "done" /\ reqs'[h].pc = "done"

\* The message_updated events that the step being taken emits to socket t.
NewUpdates(t) ==
    {k \in DOMAIN NewEvents(t) : NewEvents(t)[k].type = "message_updated"}

\* Request h names a stored message that another user sent.
ByNonSender(h) ==
    \E i \in RowsWithId(reqs[h].messageId) : messages[i].sender_id # reqs[h].userId

\* The request was answered with the status.
Answered(r, code) == "status" \in DOMAIN r /\ r.status = Some(code)

\* C13: an edit or a delete that another user than the sender of the message
\* requests changes no message row and emits no message_updated in any of
\* its steps, and, unless the store fails under it, ends with an
\* authorization error.
C13_NonSenderRefused ==
    [][\A h \in ReqIds :
        ((IsEdit(h) \/ IsDelete(h)) /\ ByNonSender(h) /\ reqs'[h] # reqs[h]) =>
            /\ messages' = messages
            /\ \A t \in SocketIds : NewUpdates(t) = {}
            /\ (Finishes(h) /\ ~StoreError(reqs'[h])) => Answered(reqs'[h], 403)]_vars

\* The columns an edit writes.
EditFields(row) ==
    <<row.content, row.is_edited, row.edited_at, row.original_content>>

\* C14: an edit by the sender that arrives when its message is soft-deleted
\* changes neither the content nor the edited fields of the message in any
\* of its steps, and, unless the store fails under it, is answered with the
\* state error.
C14_DeletedNotEdited ==
    [][\A h \in ReqIds :
        (/\ IsEdit(h) /\ reqs[h].deletedOnArrival /\ ~ByNonSender(h)
         /\ reqs'[h] # reqs[h]) =>
            /\ \A i \in RowsWithId(reqs[h].messageId) :
                    EditFields(messages'[i]) = EditFields(messages[i])
            /\ (Finishes(h) /\ ~StoreError(reqs'[h])) =>
                    /\ Answered(reqs'[h], 400)
                    /\ reqs'[h].error = Some("Cannot edit a deleted message")]_vars

\* The step being taken completes an edit that changed a row: the
\* continuation of the update of edit_message or of the REST route.
CompletesEdit(h) ==
    /\ IsEdit(h) /\ EditTookEffect(h)
    /\ reqs[h].pc \in {"broadcast", "respond"} /\ reqs'[h].pc = "done"

\* C15: the step that completes a successful edit emits message_updated to
\* the socket registered for the receiver of the message, if there is one,
\* and to the editor (the socket of the event, or the socket registered for
\* the user of the REST request), and to no socket of any other user.
C15_UpdateToReceiverAndEditor ==
    [][\A h \in ReqIds :
        CompletesEdit(h) =>
            \A i \in RowsWithId(reqs[h].messageId) :
                LET receiver == messages[i].receiver_id
                    editor == reqs[h].userId IN
                \A t \in SocketIds :
                    /\ RegistryGet(receiver) = Some(t) => NewUpdates(t) # {}
                    /\ (\/ "sock" \in DOMAIN reqs[h] /\ reqs[h].sock = t
                        \/ "sock" \notin DOMAIN reqs[h] /\ RegistryGet(editor) = Some(t))
                            => NewUpdates(t) # {}
                    /\ NewUpdates(t) # {} =>
                            sockets[t].userId \in {Some(receiver), Some(editor)}]_vars


\* The step being taken is the update of delete request h taking effect.
Deletes(h) == IsDelete(h) /\ reqs[h].pc = "update" /\ reqs'[h].pc = "respond"

\* The step being taken is the update of edit request h taking effect.
Edits(h) ==
    IsEdit(h) /\ reqs[h].pc = "update" /\ reqs'[h].pc \in {"broadcast", "respond"}

\* C16: the update of a delete that passed the ownership check sets the
\* deleted flag and deleted-at of the message and replaces its content with
\* the tombstone, leaving its other columns and every other row as they
\* were; and no step removes a row or changes the id of one.
C16_SoftDeleteOnly ==
    [][/\ \A h \in ReqIds :
            Deletes(h) =>
                \A i \in DOMAIN messages :
                    messages'[i] =
                        IF messages[i].id = reqs[h].messageId
                        THEN [messages[i] EXCEPT !.is_deleted = TRUE,
                                                 !.deleted_at = Some(now),
                                                 !.content = Tombstone]
                        ELSE messages[i]
       /\ Len(messages') >= Len(messages)
       /\ \A i \in DOMAIN messages :
            i \in DOMAIN messages' /\ messages'[i].id = messages[i].id]_vars

\* The sender's delete of a message was answered 200 and the row is there,
\* deleted, with the tombstone.
C16_Witness ==
    \E h \in ReqIds :
        /\ IsDelete(h) /\ reqs[h].pc = "done" /\ reqs[h].status = Some(200)
        /\ \E i \in RowsWithId(reqs[h].messageId) :
            /\ messages[i].sender_id = reqs[h].userId
            /\ messages[i].is_deleted /\ messages[i].deleted_at # Null
            /\ messages[i].content = Tombstone
        /\ Len(messages) = Len(StoredMessages)

\* The columns a markRead writes, and the columns a delete writes.
ReadFields(row) == <<row.is_read, row.read_at>>
DeleteFields(row) == <<row.is_deleted, row.deleted_at>>

\* C17: no step takes the deleted flag or the read flag of a message from
\* true to false; the update of an edit changes no read field of any
\* message; the update of a markRead changes neither the content nor an
\* edited or deleted field of any message.
C17_FlagsIndependent ==
    [][\A i \in DOMAIN messages :
        /\ messages[i].is_deleted => messages'[i].is_deleted
        /\ messages[i].is_read => messages'[i].is_read
        /\ (\E h \in ReqIds : Edits(h)) =>
                ReadFields(messages'[i]) = ReadFields(messages[i])
        /\ (\E h \in ReqIds : Updates(h)) =>
                /\ EditFields(messages'[i]) = EditFields(messages[i])
                /\ DeleteFields(messages'[i]) = DeleteFields(messages[i])]_vars

\* A message that was stored unread is now read, edited and deleted, the
\* three requests having been answered.
C17_Witness ==
    \E i \in DOMAIN messages :
        /\ ~StoredMessages[i].is_read
        /\ messages[i].is_read /\ messages[i].read_at # Null
        /\ messages[i].is_edited /\ messages[i].is_deleted
        /\ \E h \in ReqIds :
            /\ IsEdit(h) /\ EditTookEffect(h)
            /\ reqs[h].messageId = messages[i].id


----------------------------------------------------------------------------
(* Presence events: index.js 32-51 and 59-83 *)

\* The step being taken sends socket s its connected acknowledgement.
Acknowledges(s) ==
    /\ Len(outbox'[s]) = Len(outbox[s]) + 1
    /\ outbox'[s][Len(outbox'[s])].type = "connected"

\* The sockets the registry refers to.
Registered == {connectedUsers[u] : u \in DOMAIN connectedUsers}

\* C18: in the step that sends the socket of user X its connected
\* acknowledgement, every other connection that is registered or in the
\* namespace has been sent user_online{X}, once, and the registry entry of X
\* refers to that socket: nothing of the broadcast or of the registration is
\* left for a later step.
C18_OnlineBeforeConnected ==
    [][\A s \in SocketIds :
        Acknowledges(s) =>
            LET u == sockets[s].userId[1] IN
            /\ \A o \in (Registered \cup {o \in SocketIds : Connected(o)}) \ {s} :
                    outbox'[o] = Append(outbox[o], UserOnline(u))
            /\ RegistryGet(u)' = Some(s)]_vars

\* A socket has its acknowledgement, and a connection of another user that
\* was registered before it has the user_online of its user.
C18_Witness ==
    \E s, o \in SocketIds :
        /\ s # o /\ Connected(s) /\ Connected(o)
        /\ sockets[s].userId # sockets[o].userId
        /\ RegistryGet(sockets[o].userId[1]) = Some(o)
        /\ \E k \in DOMAIN outbox[s] : outbox[s][k].type = "connected"
        /\ \E k \in DOMAIN outbox[o] :
                outbox[o][k] = UserOnline(sockets[s].userId[1])

\* The step being taken is the continuation of the disconnect handler of
\* socket s after its update.
GoesOffline(s) == sockets[s].state = "closing_done" /\ sockets'[s].state = "closed"

\* C19: the disconnect handler of a socket of user X sends every connection
\* still in the namespace one user_offline naming X, whose lastSeen is not
\* earlier than the time that socket connected.
C19_OfflineToRemaining ==
    [][\A s \in SocketIds :
        GoesOffline(s) =>
            \A o \in SocketIds \ {s} :
                Connected(o) =>
                    /\ Len(outbox'[o]) = Len(outbox[o]) + 1
                    /\ LET ev == outbox'[o][Len(outbox'[o])] IN
                        /\ ev.type = "user_offline"
                        /\ ev.userId = sockets[s].userId[1]
                        /\ ev.lastSeen >= sockets[s].connectedAt[1]]_vars

\* A socket that connected after the clock had advanced is closed, and a
\* remaining connection has the user_offline of its user.
C19_Witness ==
    \E s, o \in SocketIds :
        /\ sockets[s].state = "closed" /\ sockets[s].connectedAt = Some(MaxTime)
        /\ Connected(o)
        /\ \E k \in DOMAIN outbox[o] :
            /\ outbox[o][k].type = "user_offline"
            /\ outbox[o][k].userId = sockets[s].userId[1]
            /\ outbox[o][k].lastSeen >= MaxTime


----------------------------------------------------------------------------
(* get_user_status: presenceHandler.js 47-82 *)

\* The data of a get_user_status event: { userId } and whether a callback
\* came with it.
StatusData(userId, cb) == [userId |-> userId, cb |-> cb]

StatusInputs ==
    {StatusData(Some("u1"), TRUE),
     StatusData(Some(UnknownUser), TRUE),
     StatusData(Null, FALSE)}

NewStatus(s, data) ==
    [kind |-> "get_user_status", sock |-> s, userId |-> sockets[s].userId[1],
     target |-> data.userId, cb |-> data.cb,
     pc |-> "query", error |-> Null, rows |-> <<>>]

StatusError(error) == [type |-> "callback", error |-> error]

\* presenceHandler.js 47-59: the event arrives; without a user id the
\* callback gets an error, otherwise the query is awaited.
GetUserStatus(s, data) ==
    /\ Connected(s)
    /\ LET r == NewStatus(s, data) IN
        IF data.userId = Null
        THEN /\ reqs' = Append(reqs, [r EXCEPT !.pc = "done",
                                        !.error = Some("User ID is required")])
             /\ outbox' = IF r.cb
                          THEN Emit(outbox, s, StatusError("User ID is required"))
                          ELSE outbox
        ELSE /\ reqs' = Append(reqs, r)
             /\ UNCHANGED outbox
    /\ UNCHANGED <<users, messages, connectedUsers, sockets, now>>

\* SELECT id, username, is_online, last_seen FROM users WHERE id = $1
StatusRows(userId) ==
    IF userId \in Users
    THEN << [id |-> userId, username |-> Username(userId),
             is_online |-> users[userId].is_online,
             last_seen |-> users[userId].last_seen] >>
    ELSE <<>>

\* presenceHandler.js 56-59: the query runs in the store.
StatusQuery(h) ==
    /\ reqs[h].kind = "get_user_status" /\ reqs[h].pc = "query"
    /\ reqs' = SetReq(h, [reqs[h] EXCEPT !.pc = "callback",
                            !.rows = StatusRows(reqs[h].target[1])])
    /\ UNCHANGED <<users, messages, connectedUsers, sockets, outbox, now>>

\* callback({ success: true, user: { id, username, isOnline, lastSeen } })
StatusResult(row) ==
    [type |-> "callback", success |-> TRUE,
     user |-> [id |-> row.id, username |-> row.username,
               isOnline |-> row.is_online, lastSeen |-> row.last_seen]]

\* presenceHandler.js 61-77: the continuation answers with the row, or with
\* an error when there is none.
StatusCallback(h) ==
    /\ reqs[h].kind = "get_user_status" /\ reqs[h].pc = "callback"
    /\ LET error == IF reqs[h].rows = <<>> THEN Some("User not found") ELSE Null IN
        /\ outbox' = IF ~reqs[h].cb THEN outbox
                     ELSE Emit(outbox, reqs[h].sock,
                               IF error # Null THEN StatusError(error[1])
                               ELSE StatusResult(reqs[h].rows[1]))
        /\ reqs' = SetReq(h, [reqs[h] EXCEPT !.pc = "done", !.error = error])
    /\ UNCHANGED <<users, messages, connectedUsers, sockets, now>>

\* presenceHandler.js 78-81: the query throws.
StatusFails(h) ==
    /\ reqs[h].kind = "get_user_status" /\ reqs[h].pc = "query"
    /\ outbox' = IF reqs[h].cb
                 THEN Emit(outbox, reqs[h].sock,
                           StatusError("Failed to fetch user status"))
                 ELSE outbox
    /\ reqs' = SetReq(h, [reqs[h] EXCEPT !.pc = "done",
                            !.error = Some("Failed to fetch user status")])
    /\ UNCHANGED <<users, messages, connectedUsers, sockets, now>>

StatusInput(max, inputs) ==
    Inputs < max /\ \E s \in SocketIds, data \in inputs : GetUserStatus(s, data)

StatusSteps ==
    \/ \E h \in ReqIds : StatusQuery(h)
    \/ \E h \in ReqIds : StatusCallback(h)

\* Connections, disconnects and status queries, with a store that may fail.
PresenceNext ==
    \/ ConnectInput(MaxPresenceInputs, GoodTokens)
    \/ ConnectFails(MaxPresenceInputs, GoodTokens)
    \/ ConnectSteps
    \/ StatusInput(MaxPresenceInputs, StatusInputs)
    \/ StatusSteps
    \/ \E h \in ReqIds : StatusFails(h)

SpecPresence == Init /\ [][PresenceNext]_vars

\* The step being taken runs the query of status request h.
LooksUp(h) ==
    /\ reqs[h].kind = "get_user_status"
    /\ reqs[h].pc = "query" /\ reqs'[h].pc = "callback"

\* Socket s is the only handshake user u has made, and its disconnect handler
\* has emitted user_offline or is about to.
OnlyDisconnect(s, u) ==
    /\ SocketsOf(u) = {s}
    /\ sockets[s].state \in {"closing_done", "closed"}

\* C20: when the disconnect handler of the only connection user X has made
\* emits user_offline, the online flag of X in the users table is false; and
\* a status query about X whose lookup runs after that emission finds the flag
\* false, and its callback reports what the lookup found.
C20_OfflineWrittenBeforeBroadcast ==
    [][/\ \A s \in SocketIds :
            GoesOffline(s) /\ OnlyDisconnect(s, sockets[s].userId[1])
                => ~users[sockets[s].userId[1]].is_online
       /\ \A h \in ReqIds :
            /\ LooksUp(h) /\ reqs[h].target[1] \in Users
                    /\ (\E s \in SocketIds :
                            /\ OnlyDisconnect(s, reqs[h].target[1])
                            /\ sockets[s].state = "closed")
                => ~reqs'[h].rows[1].is_online
            /\ reqs[h].kind = "get_user_status" /\ reqs[h].pc = "callback"
                    /\ reqs'[h].pc = "done" /\ reqs[h].rows # <<>> /\ reqs[h].cb
                => LET box == outbox'[reqs[h].sock] IN
                   /\ Len(box) = Len(outbox[reqs[h].sock]) + 1
                   /\ box[Len(box)].user.isOnline = reqs[h].rows[1].is_online]_vars


----------------------------------------------------------------------------
(* Authentication of a connection: socketAuth.js 13-60, index.js 21-39 *)

\* A credential that is absent, malformed, expired or names no known user.
BadCredential(token) ==
    \/ token = Null
    \/ token[1].kind # "valid"
    \/ token[1].userId \notin Users

\* The step being taken is the handshake of a new socket.
ShakesHands == Len(sockets') = Len(sockets) + 1

\* C21: a socket whose credential is absent, malformed, expired or names no
\* known user is rejected: it has no identity, is never in the namespace or in
\* the registry and is sent nothing; and its handshake changes no row of the
\* users table, no registry entry and no outbox of another socket.
C21_BadCredentialRejected ==
    /\ [](\A s \in SocketIds :
            BadCredential(sockets[s].token) =>
                /\ sockets[s].state = "rejected"
                /\ sockets[s].userId = Null
                /\ s \notin Registered
                /\ outbox[s] = <<>>)
    /\ [][ShakesHands /\ BadCredential(sockets'[Len(sockets')].token) =>
            /\ users' = users
            /\ connectedUsers' = connectedUsers
            /\ \A o \in SocketIds : outbox'[o] = outbox[o]]_vars

\* An expired token and a token of an unknown user were presented while a
\* user was connected and registered.
C21_Witness ==
    /\ \E s \in SocketIds :
        sockets[s].token # Null /\ sockets[s].token[1].kind = "expired"
    /\ \E s \in SocketIds : sockets[s].token = ValidToken(UnknownUser)
    /\ \E u \in Users : RegistryGet(u) # Null /\ users[u].is_online

\* The step being taken is the return of the flag update of socket s.
Authenticates(s) ==
    sockets[s].state = "auth_update" /\ sockets'[s].state = "auth_next"

\* The step being taken sends some other socket the user_online of socket s.
AnnouncesOnline(s) ==
    \E o \in SocketIds \ {s} :
        /\ Len(outbox'[o]) = Len(outbox[o]) + 1
        /\ outbox'[o][Len(outbox'[o])] = UserOnline(sockets[s].userId[1])
        /\ sockets'[s].state = "connected" /\ ~Connected(s)

\* C22: the step that lets a socket through the middleware has written true
\* to the online flag of the user of its token, whose id is attached to the
\* socket; and the steps that register a socket or broadcast its user_online
\* are taken by a socket that is already through the middleware.
C22_FlagBeforeRegistration ==
    [][\A s \in SocketIds :
        /\ Authenticates(s) =>
            /\ sockets[s].userId = Some(sockets[s].token[1].userId)
            /\ users'[sockets[s].userId[1]].is_online
        /\ (s \in Registered' /\ s \notin Registered) \/ (Connected(s)' /\ ~Connected(s))
            => sockets[s].state = "auth_next"
        /\ sockets[s].userId # Null /\ AnnouncesOnline(s)
            => sockets[s].state = "auth_next"
        /\ sockets'[s].state = "auth_next" => sockets[s].state \in {"auth_update", "auth_next"}]_vars

\* A socket is registered for its user, whose flag is true, and a socket of
\* another user has been told.
C22_Witness ==
    \E s, o \in SocketIds :
        /\ s # o /\ Connected(s) /\ RegistryGet(sockets[s].userId[1]) = Some(s)
        /\ users[sockets[s].userId[1]].is_online
        /\ outbox[o] # <<>> /\ outbox[o][Len(outbox[o])] = UserOnline(sockets[s].userId[1])


----------------------------------------------------------------------------
(* Pages of history: messageHandler.js 147-204 on a store that holds rows *)

\* Fetches with a limit of 0, a limit below and the default limit above the
\* size of the conversation, and a cursor.
PageInputs ==
    {HistoryData(Some("u2"), Some(0), Null, TRUE),
     HistoryData(Some("u2"), Some(2), Null, TRUE),
     HistoryData(Some("u1"), Null, Some(1), TRUE)}

PageNext ==
    \/ ConnectInput(MaxPageInputs, GoodTokens)
    \/ ConnectSteps
    \/ HistoryInput(MaxPageInputs, PageInputs)
    \/ HistorySteps
    \/ \E g \in ReqIds : HistoryFails(g)

SpecPage == InitStored /\ [][PageNext]_vars

\* The step being taken hands the page of fetch g to its callback.
AnswersPage(g) ==
    /\ reqs[g].kind = "get_history"
    /\ reqs[g].pc = "callback" /\ reqs'[g].pc = "done" /\ reqs[g].cb

\* C23: the page a get_history with limit L hands to its callback has at most
\* L messages, all of the conversation of the caller and the partner, in
\* ascending order of creation; hasMore is true exactly when the page has L
\* messages; when hasMore is true nextCursor is the created-at of the oldest
\* message of the page, otherwise it is absent.
C23_PageOfHistory ==
    [][\A g \in ReqIds :
        AnswersPage(g) =>
            LET box == outbox'[reqs[g].sock]
                page == box[Len(box)]
                L == reqs[g].limit IN
            /\ Len(box) = Len(outbox[reqs[g].sock]) + 1
            /\ Len(page.messages) <= L
            /\ \A a \in DOMAIN page.messages :
                {page.messages[a].senderId, page.messages[a].receiverId}
                    = {reqs[g].userId, reqs[g].partnerId[1]}
            /\ \A a, b \in DOMAIN page.messages :
                a < b => page.messages[a].createdAt <= page.messages[b].createdAt
            /\ page.hasMore <=> Len(page.messages) = L
            /\ IF page.hasMore
               THEN /\ page.messages # <<>>
                    /\ page.nextCursor = Some(page.messages[1].createdAt)
               ELSE page.nextCursor = Null]_vars


----------------------------------------------------------------------------
(* typing, stop_typing: typingHandler.js 17-48 *)

\* The event a signal is forwarded as.
TypingEvents == [typing |-> "user_typing", stop_typing |-> "user_stop_typing"]

\* The data of a typing or stop_typing event: { receiverId }.
TypingInputs == {Some("u1"), Some("u2"), Some(UnknownUser), Null}

NewTyping(s, kind, receiverId) ==
    [kind |-> kind, sock |-> s, userId |-> sockets[s].userId[1],
     receiverId |-> receiverId, pc |-> "done", error |-> Null]

UserTyping(kind, u) ==
    [type |-> TypingEvents[kind], userId |-> u, username |-> Username(u)]

\* Mutant: the signal goes to every other socket in the namespace.
Typing_ToAll(s, kind, receiverId) ==
    /\ Connected(s)
    /\ reqs' = Append(reqs, NewTyping(s, kind, receiverId))
    /\ outbox' = IF receiverId = Null THEN outbox
                 ELSE Broadcast(outbox, s, UserTyping(kind, sockets[s].userId[1]))
    /\ UNCHANGED <<users, messages, connectedUsers, sockets, now>>

\* typingHandler.js 17-30 and 35-48: the handler has no await; without a
\* receiver it returns, otherwise it looks the receiver up in the registry
\* and emits to the socket found there.
Typing(s, kind, receiverId) ==
    /\ Connected(s)
    /\ reqs' = Append(reqs, NewTyping(s, kind, receiverId))
    /\ outbox' =
        IF receiverId = Null \/ RegistryGet(receiverId[1]) = Null THEN outbox
        ELSE EmitTo(outbox, RegistryGet(receiverId[1])[1],
                    UserTyping(kind, sockets[s].userId[1]))
    /\ UNCHANGED <<users, messages, connectedUsers, sockets, now>>

TypingInput(max, inputs) ==
    Inputs < max /\ \E s \in SocketIds, kind \in DOMAIN TypingEvents,
                       receiverId \in inputs : Typing(s, kind, receiverId)

\* Connections, disconnects and typing signals, with a store that may fail.
TypingNext ==
    \/ ConnectInput(MaxTypingInputs, GoodTokens)
    \/ ConnectFails(MaxTypingInputs, GoodTokens)
    \/ ConnectSteps
    \/ TypingInput(MaxTypingInputs, TypingInputs)

SpecTyping == Init /\ [][TypingNext]_vars

\* The step being taken handles a typing or stop_typing signal.
Signals ==
    /\ Len(reqs') = Len(reqs) + 1
    /\ reqs'[Len(reqs')].kind \in DOMAIN TypingEvents

\* C24: the handling of a typing or stop_typing signal appends one event,
\* user_typing or user_stop_typing with the id and username of the sender, to
\* the outbox of the socket the registry holds for the named receiver and to
\* no other; when the registry holds none, or no receiver is named, nothing
\* is sent to anyone; and it changes no row of users or messages, no registry
\* entry and no socket, and ends without an error.
C24_TypingToReceiverOnly ==
    [][Signals =>
        LET r == reqs'[Len(reqs')]
            to == IF r.receiverId = Null THEN Null ELSE RegistryGet(r.receiverId[1]) IN
        /\ r.error = Null
        /\ \A o \in SocketIds :
            outbox'[o] =
                IF to = Some(o)
                THEN Append(outbox[o],
                            [type |-> TypingEvents[r.kind], userId |-> r.userId,
                             username |-> Username(r.userId)])
                ELSE outbox[o]
        /\ UNCHANGED <<users, messages, connectedUsers, sockets>>]_vars

\* A signal reached the registered socket of its receiver, and the socket
\* of the sender has no typing event.
C24_Witness ==
    \E h \in ReqIds, o \in SocketIds :
        /\ reqs[h].kind = "typing" /\ reqs[h].receiverId # Null
        /\ o # reqs[h].sock /\ Connected(o) /\ Connected(reqs[h].sock)
        /\ RegistryGet(reqs[h].receiverId[1]) = Some(o)
        /\ \E k \in DOMAIN outbox[o] : outbox[o][k] = UserTyping("typing", reqs[h].userId)
        /\ \A k \in DOMAIN outbox[reqs[h].sock] :
                outbox[reqs[h].sock][k].type # "user_typing"


----------------------------------------------------------------------------
(* Store failures under send_message: messageHandler.js 45-99 *)

\* The step being taken is the catch of send request h: its receiver lookup
\* or its insert threw.
Throws(h) ==
    /\ IsSend(h) /\ reqs[h].pc \in {"lookup", "insert"} /\ reqs'[h].pc = "done"
    /\ \/ reqs[h].pc = "insert"
       \/ reqs[h].receiverId[1] \in Users
       \/ StoreFailed(reqs'[h])

\* C25: when the lookup or the insert of a send_message throws, the sender's
\* socket gets the generic failure with the tempId of the request, as the
\* callback's argument when there is a callback and as message_error, and
\* nothing else; no other socket gets anything; no row is written; and the
\* sockets and the registry are as they were.
C25_StoreFailureCaught ==
    [][\A h \in ReqIds :
        Throws(h) =>
            LET r == reqs[h]
                failure == [tempId |-> r.tempId, error |-> "Failed to send message"] IN
            /\ Len(NewEvents(r.sock)) = IF r.cb THEN 2 ELSE 1
            /\ \A k \in DOMAIN NewEvents(r.sock) :
                LET ev == NewEvents(r.sock)[k] IN
                /\ ev.type = IF r.cb /\ k = 1 THEN "callback" ELSE "message_error"
                /\ [tempId |-> ev.tempId, error |-> ev.error] = failure
                /\ DOMAIN ev = {"type", "tempId", "error"}
            /\ \A o \in SocketIds \ {r.sock} : outbox'[o] = outbox[o]
            /\ messages' = messages
            /\ sockets' = sockets /\ connectedUsers' = connectedUsers]_vars

\* A send failed in the store, and a later send on the same socket, still
\* registered, was stored.
C25_Witness ==
    \E h, g \in ReqIds :
        /\ h < g /\ IsSend(h) /\ IsSend(g) /\ reqs[h].sock = reqs[g].sock
        /\ StoreFailed(reqs[h]) /\ reqs[g].result # Null
        /\ RegistryGet(reqs[h].userId) = Some(reqs[h].sock)
        /\ \E k \in DOMAIN outbox[reqs[h].sock] :
            outbox[reqs[h].sock][k] = MessageError(reqs[h].tempId, "Failed to send message")


----------------------------------------------------------------------------
(* Disconnect cleanup: index.js 59-83 *)

\* The store answers every update of a disconnect handler, with a result or
\* an error, and the continuation of an answered update runs.
CleanupFairness ==
    \A s \in 1..MaxCleanupInputs :
        /\ WF_vars(s \in SocketIds /\ (DisconnectUpdate(s) \/ DisconnectUpdateFails(s)))
        /\ WF_vars(s \in SocketIds /\ DisconnectBroadcast(s))

\* Connections and disconnects, with a store that may fail.
CleanupNext ==
    \/ ConnectInput(MaxCleanupInputs, GoodTokens)
    \/ ConnectFails(MaxCleanupInputs, GoodTokens)
    \/ ConnectSteps

SpecCleanup == Init /\ [][CleanupNext]_vars /\ CleanupFairness

\* C26: the disconnect handler of a socket leaves the registry without an
\* entry for its user; whether its update of the online flag takes effect or
\* throws, the handler goes on to the broadcast, which sends user_offline to
\* every other socket in the namespace; and every handler that has started
\* completes.
C26_CleanupOnEveryDisconnect ==
    /\ [][\A s \in SocketIds :
            /\ Disconnects(s) => RegistryGet(sockets[s].userId[1])' = Null
            /\ sockets[s].state = "closing"
                => sockets'[s].state \in {"closing", "closing_done"}
            /\ sockets[s].state = "closing_done"
                => sockets'[s].state \in {"closing_done", "closed"}
            /\ GoesOffline(s) =>
                \A o \in SocketIds \ {s} :
                    Connected(o) =>
                        /\ Len(NewEvents(o)) = 1
                        /\ NewEvents(o)[1].type = "user_offline"
                        /\ NewEvents(o)[1].userId = sockets[s].userId[1]]_vars
    /\ \A s \in 1..MaxCleanupInputs :
        (s \in SocketIds /\ sockets[s].state = "closing")
            ~> (s \in SocketIds /\ sockets[s].state = "closed")

\* The only connection of a user is closed, its flag update threw (the flag
\* is still true), the registry has no entry for the user and another
\* connection has the user_offline.
C26_Witness ==
    \E s, o \in SocketIds :
        LET u == sockets[s].userId IN
        /\ sockets[s].state = "closed" /\ SocketsOf(u[1]) = {s}
        /\ users[u[1]].is_online
        /\ RegistryGet(u[1]) = Null
        /\ Connected(o)
        /\ \E k \in DOMAIN outbox[o] :
            outbox[o][k].type = "user_offline" /\ outbox[o][k].userId = u[1]


----------------------------------------------------------------------------
(* What a delete leaves alone: routes/messages.js 307-355 *)

\* The step being taken is the arrival or a step of a DELETE request.
DeleteStep ==
    \/ Len(reqs') = Len(reqs) + 1 /\ reqs'[Len(reqs')].kind = "delete"
    \/ \E h \in ReqIds : IsDelete(h) /\ reqs'[h] # reqs[h]

\* C27: no step of a DELETE request, from its arrival to its answer, whether
\* it is refused, fails or takes effect, sends an event to any socket or
\* changes the registry.
C27_DeleteEmitsNothing ==
    [][DeleteStep => outbox' = outbox /\ connectedUsers' = connectedUsers]_vars

\* The sender's delete took effect and was answered while the receiver of the
\* message was registered with a live socket, which has no event but those of
\* connections.
C27_Witness ==
    \E h \in ReqIds, i \in DOMAIN messages, o \in SocketIds :
        /\ IsDelete(h) /\ reqs[h].pc = "done" /\ reqs[h].status = Some(200)
        /\ messages[i].id = reqs[h].messageId /\ messages[i].is_deleted
        /\ RegistryGet(messages[i].receiver_id) = Some(o) /\ Connected(o)
        /\ \A k \in DOMAIN outbox[o] :
            outbox[o][k].type \in {"connected", "user_online", "user_offline"}


----------------------------------------------------------------------------
(* Edits racing deletes: routes/messages.js 312-341, 375-414;             *)
(* messageHandler.js 214-222                                               *)

\* C28: under every interleaving of the steps of edits and deletes of a
\* message, a message whose deleted flag is true has the tombstone as its
\* content.
C28_DeletedIsTombstone ==
    \A i \in DOMAIN messages :
        messages[i].is_deleted => messages[i].content = Tombstone


----------------------------------------------------------------------------
(* POST /login and POST /logout: routes/auth.js 153-241 *)

\* The body of a login: the user its email is the address of (an unknown
\* user when no row has it, Null when it is not an email address) and
\* whether the password matches the stored hash.
\* jwt.sign({ userId }, JWT_REFRESH_SECRET, { expiresIn }): the token is its
\* payload, the user and the second it was issued at, signed; two tokens
\* signed for one user in the same second are the same string.
RefreshToken(userId, iat) == [kind |-> "valid", userId |-> userId, iat |-> iat]

\* routes/auth.js 44-58
GenerateTokens(userId) == RefreshToken(userId, now)

LoginData(email, match) == [email |-> email, match |-> match]

LoginInputs ==
    {LoginData(Some("u1"), TRUE),
     LoginData(Some("u2"), FALSE),
     LoginData(Some(UnknownUser), TRUE),
     LoginData(Null, TRUE)}

NewLogin(data) ==
    [kind |-> "login", email |-> data.email, match |-> data.match,
     pc |-> "lookup", error |-> Null, status |-> Null, refreshToken |-> Null]

\* routes/auth.js 153-169: a body that fails the validation is answered 400,
\* otherwise the user is looked up by email.
Login(data) ==
    /\ reqs' = Append(reqs,
            IF data.email = Null
            THEN [NewLogin(data) EXCEPT !.pc = "done", !.status = Some(400)]
            ELSE NewLogin(data))
    /\ UNCHANGED <<users, messages, connectedUsers, sockets, outbox, now>>

\* routes/auth.js 171-196: no row or a password that does not match is
\* answered 401; otherwise the tokens are generated and the update is awaited.
LoginLookup(h) ==
    /\ reqs[h].kind = "login" /\ reqs[h].pc = "lookup"
    /\ reqs' = SetReq(h,
            IF reqs[h].email[1] \notin Users \/ ~reqs[h].match
            THEN Answer(reqs[h], 401, "Invalid credentials")
            ELSE [reqs[h] EXCEPT !.pc = "update",
                    !.refreshToken = Some(GenerateTokens(reqs[h].email[1]))])
    /\ UNCHANGED <<users, messages, connectedUsers, sockets, outbox, now>>

\* routes/auth.js 193-196: UPDATE users SET refresh_token = $1,
\* is_online = true WHERE id = $2
LoginUpdate(h) ==
    /\ reqs[h].kind = "login" /\ reqs[h].pc = "update"
    /\ users' = [users EXCEPT ![reqs[h].email[1]] =
                    [@ EXCEPT !.is_online = TRUE,
                              !.refresh_token = reqs[h].refreshToken]]
    /\ reqs' = SetReq(h, [reqs[h] EXCEPT !.pc = "respond"])
    /\ UNCHANGED <<messages, connectedUsers, sockets, outbox, now>>

\* routes/auth.js 198-204
LoginRespond(h) ==
    /\ reqs[h].kind = "login" /\ reqs[h].pc = "respond"
    /\ reqs' = SetReq(h, [reqs[h] EXCEPT !.pc = "done", !.status = Some(200)])
    /\ UNCHANGED <<users, messages, connectedUsers, sockets, outbox, now>>

\* routes/auth.js 206-212: the lookup or the update throws.
LoginFails(h) ==
    /\ reqs[h].kind = "login" /\ reqs[h].pc \in {"lookup", "update"}
    /\ reqs' = SetReq(h, Answer(reqs[h], 500, "Server error during login"))
    /\ UNCHANGED <<users, messages, connectedUsers, sockets, outbox, now>>

\* The bearer tokens of logouts.
LogoutInputs ==
    {Null, Some([kind |-> "expired", userId |-> "u1"]),
     ValidToken("u1"), ValidToken("u2")}

NewLogout(token) ==
    [kind |-> "logout", token |-> token, pc |-> "update",
     error |-> Null, status |-> Null]

\* routes/auth.js 220-234, 241-247: without a bearer token the answer is 401;
\* a token that does not verify throws into the catch, which answers as a
\* logout; otherwise the update is awaited.
Logout(token) ==
    /\ reqs' = Append(reqs,
            IF token = Null THEN Answer(NewLogout(token), 401, "No token provided")
            ELSE IF token[1].kind # "valid"
            THEN [NewLogout(token) EXCEPT !.pc = "done", !.status = Some(200)]
            ELSE NewLogout(token))
    /\ UNCHANGED <<users, messages, connectedUsers, sockets, outbox, now>>

\* routes/auth.js 231-234: UPDATE users SET refresh_token = NULL,
\* is_online = false, last_seen = NOW() WHERE id = $1
LogoutUpdate(h) ==
    /\ reqs[h].kind = "logout" /\ reqs[h].pc = "update"
    /\ users' = IF reqs[h].token[1].userId \in Users
                THEN [users EXCEPT ![reqs[h].token[1].userId] =
                        [is_online |-> FALSE, last_seen |-> Some(now),
                         refresh_token |-> Null]]
                ELSE users
    /\ reqs' = SetReq(h, [reqs[h] EXCEPT !.pc = "respond"])
    /\ UNCHANGED <<messages, connectedUsers, sockets, outbox, now>>

\* routes/auth.js 236-239
LogoutRespond(h) ==
    /\ reqs[h].kind = "logout" /\ reqs[h].pc = "respond"
    /\ reqs' = SetReq(h, [reqs[h] EXCEPT !.pc = "done", !.status = Some(200)])
    /\ UNCHANGED <<users, messages, connectedUsers, sockets, outbox, now>>

\* routes/auth.js 241-247: the update throws; the catch answers as a logout.
LogoutFails(h) ==
    /\ reqs[h].kind = "logout" /\ reqs[h].pc = "update"
    /\ reqs' = SetReq(h, [reqs[h] EXCEPT !.pc = "done", !.status = Some(200)])
    /\ UNCHANGED <<users, messages, connectedUsers, sockets, outbox, now>>

SessionInput(max) ==
    \/ Inputs < max /\ \E data \in LoginInputs : Login(data)
    \/ Inputs < max /\ \E token \in LogoutInputs : Logout(token)

SessionSteps ==
    \/ \E h \in ReqIds : LoginLookup(h)
    \/ \E h \in ReqIds : LoginUpdate(h)
    \/ \E h \in ReqIds : LoginRespond(h)
    \/ \E h \in ReqIds : LogoutUpdate(h)
    \/ \E h \in ReqIds : LogoutRespond(h)

SessionFails ==
    \/ \E h \in ReqIds : LoginFails(h)
    \/ \E h \in ReqIds : LogoutFails(h)

\* Connections, disconnects, logins and logouts, with a store that may fail.
SessionNext ==
    \/ ConnectInput(MaxSessionInputs, GoodTokens)
    \/ ConnectFails(MaxSessionInputs, GoodTokens)
    \/ ConnectSteps
    \/ SessionInput(MaxSessionInputs)
    \/ SessionSteps
    \/ SessionFails

SpecSession == Init /\ [][SessionNext]_vars

\* No connect, disconnect, login or logout is being handled.
Quiescent ==
    /\ \A s \in SocketIds : sockets[s].state \in {"rejected", "connected", "closed"}
    /\ \A h \in ReqIds : reqs[h].kind \in {"login", "logout"} => reqs[h].pc = "done"

\* C29: whenever no connect, disconnect, login or logout is being handled, a
\* user who has a connection in the namespace has the online flag true.
C29_LiveUserIsOnline ==
    Quiescent =>
        \A u \in Users :
            (\E s \in SocketsOf(u) : Connected(s)) => users[u].is_online


----------------------------------------------------------------------------
(* The content of stored messages under sends, edits and deletes *)

\* A content one character over the limit of send_message.
TooLong == << <<"g", MaxContentLen + 1>> >>

\* Sends, edit_message events and PUT bodies with content at and beyond what
\* send_message accepts.
ContentSends ==
    {SendData(Some("u2"), Some(Longest), "t1", FALSE),
     SendData(Some("u2"), Some(TooLong), "t2", FALSE),
     SendData(Some("u2"), Some(Blank), "t1", TRUE)}
ContentEdits ==
    {EditData(1, Some(Blank), Some("u2")),
     EditData(1, Some(Edited), Some("u2"))}
ContentPuts ==
    {PutEditData(1, Some(TooLong)),
     PutEditData(1, Some(Blank))}

\* Connections, sends, edits through both channels and deletes, over stored
\* messages, with a store that may fail.
ContentNext ==
    \/ ConnectInput(MaxContentInputs, GoodTokens)
    \/ ConnectSteps
    \/ SendInput(MaxContentInputs, ContentSends)
    \/ SendSteps
    \/ EditInput(MaxContentInputs, ContentEdits)
    \/ PutEditInput(MaxContentInputs, ContentPuts)
    \/ DeleteInput(MaxContentInputs, DeleteInputs)
    \/ EditSteps
    \/ DeleteSteps
    \/ \E h \in ReqIds : SendFails(h)
    \/ EditFailures

SpecContent == InitStored /\ [][ContentNext]_vars

\* C30: the content of every stored message is the tombstone or a string
\* whose trimmed length is between 1 and 5000.
C30_StoredContentValid ==
    \A i \in DOMAIN messages :
        \/ messages[i].content = Tombstone
        \/ /\ StrLen(Trim(messages[i].content)) >= 1
           /\ StrLen(Trim(messages[i].content)) <= MaxContentLen


----------------------------------------------------------------------------
(* Truth of read receipts: messageHandler.js 106-136 *)

\* C31: every messages_read event on a socket lists only ids of stored
\* messages whose receiver is the reader the event names, whose sender is the
\* user of that socket and whose read-at is the readAt of the event.
C31_ReceiptsAreTrue ==
    \A t \in SocketIds :
        \A k \in DOMAIN outbox[t] :
            LET ev == outbox[t][k] IN
            ev.type = "messages_read" =>
                \A a \in DOMAIN ev.messageIds :
                    \E i \in DOMAIN messages :
                        /\ messages[i].id = ev.messageIds[a]
                        /\ messages[i].receiver_id = ev.readBy
                        /\ Some(messages[i].sender_id) = sockets[t].userId
                        /\ messages[i].read_at = Some(ev.readAt)


----------------------------------------------------------------------------
(* The outcome of a send_message: messageHandler.js 20-100 *)

\* send_message { receiverId: 'u2', content: 7, tempId: 't2' }: a content
\* that is a number; the content field holds its digits.
NumberSend ==
    [receiverId |-> Some("u2"), content |-> Some(<< <<"7", 1>> >>),
     tempId |-> "t2", cb |-> TRUE, typeof |-> "number"]

OutcomeSends ==
    {SendData(Some("u2"), Some(Padded), "t1", TRUE),
     SendData(Some("u2"), Some(Blank), "t2", FALSE),
     SendData(Some(UnknownUser), Some(Hi), "t1", FALSE),
     NumberSend}

\* Connections and sends of every kind of content, with a store that may
\* fail under a send.
OutcomeNext ==
    \/ ConnectInput(MaxOutcomeInputs, GoodTokens)
    \/ ConnectSteps
    \/ SendInput(MaxOutcomeInputs, OutcomeSends)
    \/ SendSteps
    \/ \E h \in ReqIds : SendFails(h)

SpecOutcome == Init /\ [][OutcomeNext]_vars

\* The step being taken ends the handling of send request h.
EndsSend(h) ==
    /\ reqs'[h].kind = "send_message" /\ reqs'[h].pc = "done"
    /\ h \in ReqIds => reqs[h].pc # "done"

\* The outcome events that the step being taken emits to socket t.
Outcomes(t) ==
    {k \in DOMAIN NewEvents(t) :
        NewEvents(t)[k].type \in {"message_sent", "message_error"}}

\* C32: the step that ends the handling of a send_message emits exactly one
\* outcome event to the sender's socket, message_sent or message_error, with
\* the tempId of the request; it is message_sent exactly when a row was
\* stored for the request; and no other step emits an outcome event.
C32_OneOutcome ==
    [][\A t \in SocketIds :
        LET ending == {h \in 1..Len(reqs') : EndsSend(h) /\ reqs'[h].sock = t} IN
        /\ Cardinality(Outcomes(t)) = Cardinality(ending)
        /\ \A h \in ending :
            \A k \in Outcomes(t) :
                /\ NewEvents(t)[k].tempId = reqs'[h].tempId
                /\ NewEvents(t)[k].type = "message_sent"
                    <=> /\ reqs'[h].result # Null
                        /\ \E i \in DOMAIN messages : messages[i] = reqs'[h].result[1]]_vars


----------------------------------------------------------------------------
(* Whose messages a connection writes: messageHandler.js 59-65, 216-222;   *)
(* socketAuth.js 35-37                                                     *)

\* The user that the token of socket s was verified for.
Authenticated(s) == sockets[s].token[1].userId

\* C33: the row an insert of a send_message adds has as its sender the user
\* the token of the request's socket was verified for, and the update of an
\* edit_message changes no row whose sender is another user, whatever the
\* data of the event name.
C33_WritesAsAuthenticated ==
    [][\A h \in ReqIds :
        /\ (IsSend(h) /\ reqs[h].pc = "insert" /\ reqs'[h].pc = "ack") =>
                /\ Len(messages') = Len(messages) + 1
                /\ messages'[Len(messages')].sender_id = Authenticated(reqs[h].sock)
                /\ \A i \in DOMAIN messages : messages'[i] = messages[i]
        /\ (reqs[h].kind = "edit_message" /\ Edits(h)) =>
                \A i \in DOMAIN messages :
                    messages'[i] # messages[i]
                        => messages[i].sender_id = Authenticated(reqs[h].sock)]_vars

\* A connection stored a message sent to its own user's id, and an
\* edit_message of the sender of a stored message changed it.
C33_Witness ==
    /\ \E h \in ReqIds :
        /\ IsSend(h) /\ reqs[h].result # Null
        /\ \E i \in DOMAIN messages :
            /\ messages[i] = reqs[h].result[1]
            /\ messages[i].sender_id = Authenticated(reqs[h].sock)
    /\ \E h \in ReqIds :
        /\ reqs[h].kind = "edit_message" /\ reqs[h].found
        /\ \E i \in RowsWithId(reqs[h].messageId) :
            messages[i].is_edited /\ messages[i].sender_id = Authenticated(reqs[h].sock)


----------------------------------------------------------------------------
(* Two sends of one sender in flight: messageHandler.js 45-92               *)

MaxOrderInputs == 4

\* The message for u2 that a client of u1 sends, again and again.
OrderSends ==
    {SendData(Some("u2"), Some(Hi), "t1", FALSE)}

\* The sender and the receiver.
OrderTokens == {ValidToken("u1"), ValidToken("u2")}

\* u1 and u2 connect and stay connected, u1 sends, and time passes: every
\* send is handled as three steps cut at the awaits of the lookup and of the
\* insert, and the steps of two sends interleave freely.
OrderNext ==
    \/ Inputs < MaxOrderInputs /\ \E token \in OrderTokens : Handshake(token)
    \/ \E s \in SocketIds : AuthUpdate(s)
    \/ \E s \in SocketIds : Connection(s)
    \/ Inputs < MaxOrderInputs
        /\ \E s \in SocketIds, data \in OrderSends :
            sockets[s].userId = Some("u1") /\ SendMessage(s, data)
    \/ SendSteps
    \/ Tick

SpecOrder == Init /\ [][OrderNext]_vars

\* The positions in the events of socket t at which the message of send h
\* was pushed.
PushedAt(t, h) ==
    {k \in DOMAIN outbox[t] :
        /\ outbox[t][k].type = "receive_message"
        /\ outbox[t][k].message.id = reqs[h].result[1].id}

\* C34: of two sends of one sender to one receiver that arrived one after
\* the other, the first is stored with a creation time not later than that
\* of the second, and when both were pushed to the same registered socket of
\* the receiver the first was pushed first.
C34_ArrivalOrder ==
    \A h1, h2 \in ReqIds :
        (/\ h1 < h2
         /\ IsSend(h1) /\ IsSend(h2)
         /\ reqs[h1].userId = reqs[h2].userId
         /\ reqs[h1].receiverId = reqs[h2].receiverId
         /\ reqs[h1].result # Null /\ reqs[h2].result # Null)
        => /\ reqs[h1].result[1].created_at <= reqs[h2].result[1].created_at
           /\ \A t \in SocketIds :
                (/\ reqs[h1].pc = "done" /\ reqs[h1].recipientSocketId = Some(t)
                 /\ reqs[h2].pc = "done" /\ reqs[h2].recipientSocketId = Some(t))
                => \A k1 \in PushedAt(t, h1), k2 \in PushedAt(t, h2) : k1 < k2


----------------------------------------------------------------------------
(* Paging a conversation: messageHandler.js 147-198                        *)

MaxPagingInputs == 3

\* The first request of a client that pages: no cursor.
PagingStarts ==
    {HistoryData(Some("u2"), Some(2), Null, TRUE),
     HistoryData(Some("u1"), Null, Null, TRUE)}

\* The get_history requests of socket s, in order of arrival.
HistoryRequests(s) == {g \in ReqIds : reqs[g].kind = "get_history" /\ reqs[g].sock = s}

\* The positions of the pages handed to callbacks of socket s.
Pages(s) == {k \in DOMAIN outbox[s] : "hasMore" \in DOMAIN outbox[s][k]}

\* The client of socket s asks for the first page of a conversation.
StartPaging(s, data) ==
    /\ HistoryRequests(s) = {}
    /\ GetHistory(s, data)

\* The client of socket s got a page with hasMore and asks for the next one
\* with the same partner and limit, passing nextCursor as before.
ContinuePaging(s) ==
    /\ Pages(s) # {}
    /\ Cardinality(Pages(s)) = Cardinality(HistoryRequests(s))
    /\ LET page == outbox[s][CHOOSE k \in Pages(s) : \A j \in Pages(s) : j <= k]
           g == CHOOSE g \in HistoryRequests(s) : \A j \in HistoryRequests(s) : j <= g IN
        /\ page.hasMore
        /\ GetHistory(s, HistoryData(reqs[g].partnerId, Some(reqs[g].limit),
                                     page.nextCursor, TRUE))

\* Connections and clients that page through conversations of stored
\* messages.
PagingNext ==
    \/ ConnectInput(MaxPagingInputs, GoodTokens)
    \/ ConnectSteps
    \/ Inputs < MaxPagingInputs
        /\ \E s \in SocketIds, data \in PagingStarts : StartPaging(s, data)
    \/ Inputs < MaxPagingInputs /\ \E s \in SocketIds : ContinuePaging(s)
    \/ HistorySteps

SpecPaging == InitStored /\ [][PagingNext]_vars

\* How often the pages of socket s hold the message with the id.
TimesPaged(s, id) ==
    Cardinality({ka \in Pages(s) \X DOMAIN messages :
                    /\ ka[2] \in DOMAIN outbox[s][ka[1]].messages
                    /\ outbox[s][ka[1]].messages[ka[2]].id = id})

\* C35: when a client has paged a conversation from the first page, without
\* a cursor, on to a page with hasMore false, passing each nextCursor as
\* before, the pages together hold every message of the conversation once.
C35_PagingReturnsAll ==
    \A s \in SocketIds :
        (/\ Pages(s) # {}
         /\ Cardinality(Pages(s)) = Cardinality(HistoryRequests(s))
         /\ \E k \in Pages(s) :
                (\A j \in Pages(s) : j <= k) /\ ~outbox[s][k].hasMore)
        => \A g \in HistoryRequests(s) :
                \A i \in Conversation(g) : TimesPaged(s, messages[i].id) = 1


----------------------------------------------------------------------------
(* Whose messages a history holds: messageHandler.js 155-186               *)

\* C36: the page a get_history hands to its callback holds only messages
\* that one of the caller and the named partner sent to the other, and no
\* page that a socket ever got holds a message that the user of the socket
\* neither sent nor received.
C36_OnlyOwnConversation ==
    /\ [](\A t \in SocketIds :
            \A k \in Pages(t) :
                \A a \in DOMAIN outbox[t][k].messages :
                    Authenticated(t) \in {outbox[t][k].messages[a].senderId,
                                          outbox[t][k].messages[a].receiverId})
    /\ [][\A g \in ReqIds :
            CallsBack(g) =>
                \A ev \in {NewEvents(reqs[g].sock)[k] : k \in DOMAIN NewEvents(reqs[g].sock)} :
                    \A a \in DOMAIN ev.messages :
                        {ev.messages[a].senderId, ev.messages[a].receiverId}
                            = {Authenticated(reqs[g].sock), reqs[g].partnerId[1]}]_vars

\* A socket got a page while the store held a message that its user neither
\* sent nor received.
C36_Witness ==
    \E t \in SocketIds :
        /\ Pages(t) # {}
        /\ \E i \in DOMAIN messages :
            Authenticated(t) \notin {messages[i].sender_id, messages[i].receiver_id}


----------------------------------------------------------------------------
(* GET /api/messages/:partnerId: routes/messages.js 109-189                 *)

MaxRestInputs == 3

\* The decimal digits of a query string.
DigitValue ==
    [c \in {"0", "1", "2", "3", "4", "5", "6", "7", "8", "9"} |->
        CASE c = "0" -> 0 [] c = "1" -> 1 [] c = "2" -> 2 [] c = "3" -> 3
          [] c = "4" -> 4 [] c = "5" -> 5 [] c = "6" -> 6 [] c = "7" -> 7
          [] c = "8" -> 8 [] c = "9" -> 9]

\* parseInt(limit, 10) of a string of decimal digits, read from the left.
RECURSIVE ParseInt(_)
ParseInt(str) ==
    IF str = <<>> THEN 0
    ELSE 10 * ParseInt(SubSeq(str, 1, Len(str) - 1)) + DigitValue[str[Len(str)]]

\* const { limit = 50, before } = req.query; parseInt(limit, 10)
ParsedLimit(limit) == IF limit = Null THEN DefaultLimit ELSE ParseInt(limit[1])

\* The request: the caller that the token names, the :partnerId of the path
\* and the limit and before of the query string.  Null is a missing field.
RestHistoryData(partnerId, limit, before) ==
    [partnerId |-> partnerId, limit |-> limit, before |-> before]

RestHistoryInputs ==
    {RestHistoryData("u2", Some(<<"1">>), Null),
     RestHistoryData("u2", Some(<<"1", "0">>), Some(0)),
     RestHistoryData(UnknownUser, Null, Null)}

NewGetMessages(u, data) ==
    [kind |-> "get_messages", userId |-> u, partnerId |-> data.partnerId,
     limit |-> data.limit, before |-> data.before,
     pc |-> "partner", error |-> Null, status |-> Null, partner |-> Null,
     rows |-> <<>>, body |-> Null]

\* routes/messages.js 109-119: the request arrives and the partner check is
\* awaited.
GetMessages(u, data) ==
    /\ reqs' = Append(reqs, NewGetMessages(u, data))
    /\ UNCHANGED <<users, messages, connectedUsers, sockets, outbox, now>>

\* routes/messages.js 116-126: SELECT id, username FROM users WHERE id = $1;
\* without a row the answer is 404.
PartnerCheck(h) ==
    /\ reqs[h].kind = "get_messages" /\ reqs[h].pc = "partner"
    /\ reqs' = SetReq(h,
            IF reqs[h].partnerId \in DOMAIN users
            THEN [reqs[h] EXCEPT !.pc = "query",
                    !.partner = Some([id |-> reqs[h].partnerId,
                                      username |-> Username(reqs[h].partnerId)])]
            ELSE [reqs[h] EXCEPT !.pc = "done", !.status = Some(404),
                    !.error = Some("User not found")])
    /\ UNCHANGED <<users, messages, connectedUsers, sockets, outbox, now>>

\* routes/messages.js 139-149: WHERE ((m.sender_id = $1 AND m.receiver_id =
\* $2) OR (m.sender_id = $2 AND m.receiver_id = $1)) [AND m.created_at < $3]
RestInHistory(row, userId, partnerId, before) ==
    /\ \/ row.sender_id = userId /\ row.receiver_id = partnerId
       \/ row.sender_id = partnerId /\ row.receiver_id = userId
    /\ before # Null => row.created_at < before[1]

\* routes/messages.js 151-154: ORDER BY m.created_at DESC LIMIT
\* parseInt(limit, 10): the sequences of rows the store may return.
RestRows(userId, partnerId, limit, before) ==
    LET q == OrderedLimited(
                {i \in DOMAIN messages :
                    RestInHistory(messages[i], userId, partnerId, before)},
                ParsedLimit(limit)) IN
    {[a \in DOMAIN ids |-> messages[ids[a]]] : ids \in q}

\* routes/messages.js 154: the query takes effect in the store.
GetMessagesQuery(h) ==
    /\ reqs[h].kind = "get_messages" /\ reqs[h].pc = "query"
    /\ \E rows \in RestRows(reqs[h].userId, reqs[h].partnerId, reqs[h].limit,
                            reqs[h].before) :
        reqs' = SetReq(h, [reqs[h] EXCEPT !.pc = "respond", !.rows = rows])
    /\ UNCHANGED <<users, messages, connectedUsers, sockets, outbox, now>>

\* routes/messages.js 156-165: result.rows.map(...).reverse()
RestMessages(rows) ==
    [a \in DOMAIN rows |->
        LET row == rows[Len(rows) + 1 - a] IN
        [id |-> row.id, senderId |-> row.sender_id, receiverId |-> row.receiver_id,
         content |-> row.content, createdAt |-> row.created_at,
         isRead |-> row.is_read, readAt |-> row.read_at,
         senderUsername |-> Username(row.sender_id)]]

\* Mutant: the number of rows is compared with the limit as the query string
\* has it, which no number is identical to.
RestHasMore_Unparsed(rows, limit) == limit = Null /\ Len(rows) = DefaultLimit

\* routes/messages.js 167-168
RestHasMore(rows, limit) == Len(rows) = ParsedLimit(limit)
RestNextCursor(rows, limit) ==
    IF RestHasMore(rows, limit) /\ Len(rows) > 0
    THEN Some(rows[Len(rows)].created_at) ELSE Null

\* routes/messages.js 170-179: the body of the answer.
RestBody(rows, limit, partner) ==
    [success |-> TRUE, messages |-> RestMessages(rows),
     hasMore |-> RestHasMore(rows, limit),
     nextCursor |-> RestNextCursor(rows, limit), partner |-> partner]

\* routes/messages.js 156-179: the continuation answers with the page.
GetMessagesRespond(h) ==
    /\ reqs[h].kind = "get_messages" /\ reqs[h].pc = "respond"
    /\ reqs' = SetReq(h, [reqs[h] EXCEPT
                !.pc = "done", !.status = Some(200),
                !.body = Some(RestBody(reqs[h].rows, reqs[h].limit,
                                       reqs[h].partner[1]))])
    /\ UNCHANGED <<users, messages, connectedUsers, sockets, outbox, now>>

\* routes/messages.js 181-187: the partner check or the query throws; the
\* answer is 500.
GetMessagesFails(h) ==
    /\ reqs[h].kind = "get_messages" /\ reqs[h].pc \in {"partner", "query"}
    /\ reqs' = SetReq(h, [reqs[h] EXCEPT
                !.pc = "done", !.status = Some(500),
                !.error = Some("Failed to fetch messages")])
    /\ UNCHANGED <<users, messages, connectedUsers, sockets, outbox, now>>

\* The get_history events that ask what the requests of RestHistoryInputs ask.
RestEventInputs ==
    {HistoryData(Some("u2"), Some(1), Null, TRUE),
     HistoryData(Some("u2"), Some(10), Some(0), TRUE)}

\* u1 connects and fetches histories through both channels over stored
\* messages, with a store that may fail.
RestNext ==
    \/ Inputs < MaxRestInputs /\ Handshake(ValidToken("u1"))
    \/ \E s \in SocketIds : AuthUpdate(s)
    \/ \E s \in SocketIds : Connection(s)
    \/ HistoryInput(MaxRestInputs, RestEventInputs)
    \/ HistorySteps
    \/ \E g \in ReqIds : HistoryFails(g)
    \/ Inputs < MaxRestInputs
        /\ \E data \in RestHistoryInputs : GetMessages("u1", data)
    \/ \E h \in ReqIds : PartnerCheck(h)
    \/ \E h \in ReqIds : GetMessagesQuery(h)
    \/ \E h \in ReqIds : GetMessagesRespond(h)
    \/ \E h \in ReqIds : GetMessagesFails(h)

SpecRest == InitStored /\ [][RestNext]_vars

\* The rows a get_history query with these parameters may return now.
EventRows(userId, partnerId, limit, before) ==
    {[a \in DOMAIN ids |-> messages[ids[a]]] :
        ids \in OrderedLimited(Selected(userId, partnerId, before), limit)}

\* C37: over one store state and the same caller, existing partner, limit
\* and before, the rows the query of the route may return are the rows the
\* query of get_history may return; and from the same rows the route answers
\* with the messages, hasMore and nextCursor that get_history hands to its
\* callback.
C37_RoutesEquivalent ==
    [][\A h \in ReqIds :
        /\ (reqs[h].kind = "get_messages" /\ reqs[h].pc = "query") =>
            RestRows(reqs[h].userId, reqs[h].partnerId, reqs[h].limit, reqs[h].before)
                = EventRows(reqs[h].userId, reqs[h].partnerId,
                            ParsedLimit(reqs[h].limit), reqs[h].before)
        /\ Queries(h) =>
            \E limit \in {data.limit : data \in RestHistoryInputs} :
                /\ ParsedLimit(limit) = reqs[h].limit
                /\ reqs'[h].rows \in RestRows(reqs[h].userId, reqs[h].partnerId[1],
                                              limit, reqs[h].before)
        /\ (reqs[h].kind = "get_messages" /\ reqs[h].pc = "respond"
                /\ reqs'[h].pc = "done") =>
            LET body == reqs'[h].body[1]
                page == HistoryResult(reqs[h].rows, ParsedLimit(reqs[h].limit)) IN
            /\ reqs'[h].status = Some(200)
            /\ body.messages = page.messages
            /\ body.hasMore = page.hasMore
            /\ body.nextCursor = page.nextCursor]_vars

\* The route answered a caller with a full page of one message and a cursor,
\* and a get_history of the same caller with the same partner, limit and
\* before handed a page to its callback.
C37_Witness ==
    \E h, g \in ReqIds :
        /\ reqs[h].kind = "get_messages" /\ reqs[h].status = Some(200)
        /\ reqs[h].body[1].hasMore /\ Len(reqs[h].body[1].messages) = 1
        /\ reqs[h].body[1].nextCursor # Null
        /\ IsHistory(g) /\ reqs[g].pc = "done" /\ reqs[g].error = Null
        /\ reqs[g].userId = reqs[h].userId
        /\ reqs[g].partnerId = Some(reqs[h].partnerId)
        /\ reqs[g].limit = ParsedLimit(reqs[h].limit)
        /\ reqs[g].before = reqs[h].before
        /\ Pages(reqs[g].sock) # {}


----------------------------------------------------------------------------
(* POST /api/auth/refresh: routes/auth.js 262-313                          *)

MaxRefreshInputs == 3

\* The refreshToken of the body: missing, a token the server signed for u1
\* in second 0, and a token that does not verify.
RefreshInputs ==
    {Null, Some(RefreshToken("u1", 0)),
     Some([kind |-> "forged", userId |-> "u1", iat |-> 0])}

NewRefresh(token) ==
    [kind |-> "refresh", token |-> token, pc |-> "lookup",
     error |-> Null, status |-> Null, refreshToken |-> Null]

\* routes/auth.js 262-281, 306-312: without a token the answer is 401; a
\* token that does not verify throws into the catch, which answers 401;
\* otherwise the lookup is awaited.
Refresh(token) ==
    /\ reqs' = Append(reqs,
            IF token = Null
            THEN Answer(NewRefresh(token), 401, "Refresh token required")
            ELSE IF token[1].kind # "valid"
            THEN Answer(NewRefresh(token), 401, "Invalid or expired refresh token")
            ELSE NewRefresh(token))
    /\ UNCHANGED <<users, messages, connectedUsers, sockets, outbox, now>>

\* SELECT * FROM users WHERE id = $1 AND refresh_token = $2
RefreshRows(userId, token) ==
    {u \in DOMAIN users : u = userId /\ users[u].refresh_token = Some(token)}

\* routes/auth.js 277-298: the lookup is answered; without a row the answer
\* is 401, otherwise new tokens are generated and the update is awaited.
RefreshLookup(h) ==
    /\ reqs[h].kind = "refresh" /\ reqs[h].pc = "lookup"
    /\ LET token == reqs[h].token[1] IN
        reqs' = SetReq(h,
            IF RefreshRows(token.userId, token) = {}
            THEN Answer(reqs[h], 401, "Invalid refresh token")
            ELSE [reqs[h] EXCEPT !.pc = "update",
                    !.refreshToken = Some(GenerateTokens(token.userId))])
    /\ UNCHANGED <<users, messages, connectedUsers, sockets, outbox, now>>

\* routes/auth.js 295-298: UPDATE users SET refresh_token = $1 WHERE id = $2
RefreshUpdate(h) ==
    /\ reqs[h].kind = "refresh" /\ reqs[h].pc = "update"
    /\ users' = [users EXCEPT ![reqs[h].token[1].userId].refresh_token =
                    reqs[h].refreshToken]
    /\ reqs' = SetReq(h, [reqs[h] EXCEPT !.pc = "respond"])
    /\ UNCHANGED <<messages, connectedUsers, sockets, outbox, now>>

\* routes/auth.js 300-304: the continuation answers with the new tokens.
RefreshRespond(h) ==
    /\ reqs[h].kind = "refresh" /\ reqs[h].pc = "respond"
    /\ reqs' = SetReq(h, [reqs[h] EXCEPT !.pc = "done", !.status = Some(200)])
    /\ UNCHANGED <<users, messages, connectedUsers, sockets, outbox, now>>

\* routes/auth.js 306-312: the lookup or the update throws; the answer is 401.
RefreshFails(h) ==
    /\ reqs[h].kind = "refresh" /\ reqs[h].pc \in {"lookup", "update"}
    /\ reqs' = SetReq(h, Answer(reqs[h], 401, "Invalid or expired refresh token"))
    /\ UNCHANGED <<users, messages, connectedUsers, sockets, outbox, now>>

\* Logins and logouts of u1 and refreshes, with a store that may fail under
\* a refresh and a clock that advances.
RefreshNext ==
    \/ Inputs < MaxRefreshInputs /\ Login(LoginData(Some("u1"), TRUE))
    \/ Inputs < MaxRefreshInputs /\ Logout(ValidToken("u1"))
    \/ Inputs < MaxRefreshInputs /\ \E token \in RefreshInputs : Refresh(token)
    \/ SessionSteps
    \/ \E h \in ReqIds : RefreshLookup(h)
    \/ \E h \in ReqIds : RefreshUpdate(h)
    \/ \E h \in ReqIds : RefreshRespond(h)
    \/ \E h \in ReqIds : RefreshFails(h)
    \/ Tick

SpecRefresh == Init /\ [][RefreshNext]_vars

\* The refresh requests that presented the token and were answered with new
\* tokens.
Redeemed(token) ==
    {h \in ReqIds : /\ reqs[h].kind = "refresh" /\ reqs[h].token = token
                    /\ reqs[h].status = Some(200)}

\* C38: of the refresh requests that present one refresh token at most one
\* is answered with new tokens.
C38_RedeemedOnce ==
    \A h \in ReqIds :
        reqs[h].kind = "refresh" => Cardinality(Redeemed(reqs[h].token)) <= 1

\* C39: the lookup of a refresh lets the request go on only when the token
\* presented is the one stored for its user; and once a user has no stored
\* refresh token, as after a logout, only a login of that user stores one.
C39_OnlyCurrentToken ==
    [][/\ \A h \in ReqIds :
            (reqs[h].kind = "refresh" /\ reqs[h].pc = "lookup"
                /\ reqs'[h].pc = "update")
            => users[reqs[h].token[1].userId].refresh_token = reqs[h].token
       /\ \A u \in Users :
            (users[u].refresh_token = Null /\ users'[u].refresh_token # Null)
            => \E h \in ReqIds :
                /\ reqs[h].kind = "login" /\ reqs[h].email = Some(u)
                /\ reqs[h].pc = "update" /\ reqs'[h].pc = "respond"]_vars


=============================================================================
